---- MODULE Spec2Model ----
(***************************************************************************)
(* grove (git-hud): the repository/worktree lifecycle orchestrator, its    *)
(* SQLite store, the progress map and the broadcast of full-state          *)
(* snapshots.                                                              *)
(*                                                                         *)
(* Strings that the code transforms (branch names, directory names) are    *)
(* sequences of one-character strings.  A filesystem path is a record      *)
(* [root, leaf]: root is the sequence of components below code_dir         *)
(* (<<owner, name...>>), leaf the directory name below the repository      *)
(* root (<<>> for the root itself).                                        *)
(***************************************************************************)
EXTENDS Naturals, Sequences, FiniteSets, TLC

(***************************************************************************)
(* Bounds of the model.                                                    *)
(***************************************************************************)
\* request handlers and background pipelines that can be in flight at once
MaxTasks == 2
\* repository ids the store hands out (uuid::new_v4 never repeats)
MaxRepos == 2
\* requests the server accepts in one run
MaxRequests == 3
\* calls of set_progress and on_db_change while a stream client is connected
MaxCalls == 4

(***************************************************************************)
(* Characters and strings.                                                 *)
(***************************************************************************)
\* Option<T> is a set with at most one element
NoHead == "none"

\* char::is_alphanumeric is Unicode-aware: it holds of non-ASCII letters too
AsciiAlnum ==
    {"a", "b", "d", "e", "f", "g", "i", "m", "n", "r", "t", "v", "x", "1"}
UnicodeAlnum == {"é"}

is_alphanumeric(c) == c \in AsciiAlnum \cup UnicodeAlnum

is_whitespace(c) == c = " "

RECURSIVE trim_start(_)
trim_start(s) ==
    IF s # <<>> /\ is_whitespace(Head(s)) THEN trim_start(Tail(s)) ELSE s

RECURSIVE trim_end(_)
trim_end(s) ==
    IF s # <<>> /\ is_whitespace(s[Len(s)])
    THEN trim_end(SubSeq(s, 1, Len(s) - 1))
    ELSE s

\* str::trim
trim(s) == trim_end(trim_start(s))

\* str::replace("..", "__"): non-overlapping matches, left to right
RECURSIVE replace_dotdot(_)
replace_dotdot(s) ==
    IF Len(s) < 2 THEN s
    ELSE IF s[1] = "." /\ s[2] = "."
         THEN <<"_", "_">> \o replace_dotdot(SubSeq(s, 3, Len(s)))
         ELSE <<s[1]>> \o replace_dotdot(Tail(s))

\* str::replace('/', "--")
RECURSIVE replace_slash(_)
replace_slash(s) ==
    IF s = <<>> THEN <<>>
    ELSE (IF Head(s) = "/" THEN <<"-", "-">> ELSE <<Head(s)>>)
         \o replace_slash(Tail(s))

keep_char(c) == is_alphanumeric(c) \/ c = "." \/ c = "_" \/ c = "-"

RECURSIVE filter_chars(_)
filter_chars(s) ==
    IF s = <<>> THEN <<>>
    ELSE (IF keep_char(Head(s)) THEN <<Head(s)>> ELSE <<>>)
         \o filter_chars(Tail(s))

MainDir == <<".", "m", "a", "i", "n">>

sanitize_branch_name(branch, default_branch) ==
    IF branch = default_branch
    THEN MainDir
    ELSE filter_chars(replace_slash(replace_dotdot(branch)))

\* branch.is_empty() || branch.chars().all(|c| c == '.')
invalid_branch(branch) == \A i \in 1..Len(branch) : branch[i] = "."

(***************************************************************************)
(* URLs.  A URL is [form, host, segs, git]: form "ssh" is git@host:path,   *)
(* "https" is https://host/path, host a sequence of labels, segs the       *)
(* '/'-separated pieces of the path and git whether it ends in ".git".     *)
(***************************************************************************)
GithubLabels == {"github"}
GitlabLabels == {"gitlab"}
BitbucketLabels == {"bitbucket"}

host_contains(host, labels) == \E i \in 1..Len(host) : host[i] \in labels

extract_provider(host) ==
    IF host_contains(host, GithubLabels) THEN "github"
    ELSE IF host_contains(host, GitlabLabels) THEN "gitlab"
    ELSE IF host_contains(host, BitbucketLabels) THEN "bitbucket"
    ELSE IF host = <<>> THEN "unknown" ELSE host[1]

\* splitn(2, '/') of the path with ".git" trimmed: the first piece is the
\* username, everything after the first '/' is the name
parse_git_url(url) ==
    IF url.form \in {"ssh", "https"} /\ Len(url.segs) >= 2
    THEN {[provider |-> extract_provider(url.host),
           username |-> url.segs[1],
           name     |-> Tail(url.segs),
           url      |-> url]}
    ELSE {}

UrlHttps == [form |-> "https", host |-> <<"github", "com">>,
             segs |-> <<"acme", "widgets">>, git |-> FALSE]
UrlSsh == [form |-> "ssh", host |-> <<"github", "com">>,
           segs |-> <<"acme", "widgets">>, git |-> TRUE]
UrlGitlab == [form |-> "https", host |-> <<"gitlab", "com">>,
              segs |-> <<"acme", "widgets">>, git |-> FALSE]
UrlBad == [form |-> "https", host |-> <<"github", "com">>,
           segs |-> <<"acme">>, git |-> FALSE]

Urls == {UrlHttps, UrlSsh, UrlGitlab, UrlBad}

\* a directory layout that keeps the providers apart
local_path_with_provider(parsed) ==
    <<parsed.provider, parsed.username>> \o parsed.name

\* config.code_dir.join(username).join(name)
local_path_of(parsed) == <<parsed.username>> \o parsed.name

RootDir(local_path) == [root |-> local_path, leaf |-> <<>>]
JoinDir(local_path, leaf) == [root |-> local_path, leaf |-> leaf]

BareDir == <<".", "b", "a", "r", "e">>
GitFile == <<".", "g", "i", "t">>

Main == <<"m", "a", "i", "n">>
Dev == <<"d", "e", "v">>
Feature == <<"f", "/", "x">>

\* what detect_default_branch can answer, and the branches requests name
DetectedBranches == {Main, Dev}
BranchInputs == {Main, Feature}

\* the head commit get_status reads
GitHeads == {"c1"}

VARIABLES
    repositories,     \* table repositories: a set of rows
    worktrees,        \* table worktrees: rows in created_at order
    worktree_config,  \* table worktree_config: a set of rows
    next_id,          \* the next repository id insert_repository generates
    progress,         \* StateManager.progress: key -> message
    dirs,             \* the directories and files that exist below code_dir
    tasks,            \* request handlers and spawned pipelines in flight
    subs,             \* the receivers of StateManager.tx
    threads,          \* callers inside StateManager::push_state
    requests,         \* the number of requests the server has accepted
    calls             \* the number of StateManager calls pipelines have made

vars == <<repositories, worktrees, worktree_config, next_id, progress, dirs,
          tasks, subs, threads, requests, calls>>

store == <<repositories, worktrees, worktree_config, next_id>>

(***************************************************************************)
(* Database (db.rs).  Every operation takes the connection mutex, so each  *)
(* is one atomic step.  The operators map a table to the table after the   *)
(* statement; a query returns the set of rows it finds.                    *)
(***************************************************************************)
SeqToSet(s) == {s[i] : i \in 1..Len(s)}

RECURSIVE SelectSeq2(_, _)
\* the rows r of s with P[r]; P a function from rows to BOOLEAN
SelectSeq2(s, P) ==
    IF s = <<>> THEN <<>>
    ELSE (IF P[Head(s)] THEN <<Head(s)>> ELSE <<>>) \o SelectSeq2(Tail(s), P)

get_repository(repos, id) == {r \in repos : r.id = id}

\* a lookup that sees only the repositories whose clone has finished
get_repository_by_name_synced(repos, provider, username, name) ==
    {r \in repos : r.provider = provider /\ r.username = username
                   /\ r.name = name /\ r.last_synced # "never"}

get_repository_by_name(repos, provider, username, name) ==
    {r \in repos : r.provider = provider /\ r.username = username
                   /\ r.name = name}

\* ORDER BY created_at DESC: ids are handed out in creation order
RECURSIVE list_repositories_from(_, _)
list_repositories_from(repos, id) ==
    IF id = 0 THEN <<>>
    ELSE (IF get_repository(repos, id) = {} THEN <<>>
          ELSE <<CHOOSE r \in repos : r.id = id>>)
         \o list_repositories_from(repos, id - 1)

list_repositories(repos) == list_repositories_from(repos, MaxRepos + 1)

\* schema.sql: UNIQUE(provider, username, name) and UNIQUE(local_path)
repository_unique(repos, new) ==
    /\ get_repository_by_name(repos, new.provider, new.username, new.name) = {}
    /\ \A r \in repos : r.local_path # new.local_path

NewRepositoryRow(id, new) ==
    [id |-> id, provider |-> new.provider, username |-> new.username,
     name |-> new.name, clone_url |-> new.clone_url,
     local_path |-> new.local_path, default_branch |-> new.default_branch,
     last_synced |-> new.last_synced]

\* Ok(id) is the table with the row added; Err leaves the table as it was
insert_repository_ok(repos, new) == repository_unique(repos, new)

insert_repository(repos, id, new) == repos \cup {NewRepositoryRow(id, new)}

\* a detection whose result never reaches the repository row
update_repository_default_branch_dropped(repos, id, default_branch) == repos

update_repository_default_branch(repos, id, default_branch) ==
    {IF r.id = id THEN [r EXCEPT !.default_branch = default_branch] ELSE r
     : r \in repos}

\* last_synced = now: the model keeps only whether a sync was recorded
update_repository_synced(repos, id) ==
    {IF r.id = id THEN [r EXCEPT !.last_synced = "now"] ELSE r : r \in repos}

\* ORDER BY created_at ASC
list_worktrees(wts, repo_id) ==
    SelectSeq2(wts, [w \in SeqToSet(wts) |-> w.repo_id = repo_id])

get_worktree(wts, path) == {w \in SeqToSet(wts) : w.path = path}

\* schema.sql: path is the primary key, repo_id references repositories(id)
\* an insert that checks the repository only
worktree_insertable_twice(repos, wts, new) ==
    get_repository(repos, new.repo_id) # {}

worktree_insertable(repos, wts, new) ==
    /\ get_worktree(wts, new.path) = {}
    /\ get_repository(repos, new.repo_id) # {}

insert_worktree_ok(repos, wts, new) == worktree_insertable(repos, wts, new)

insert_worktree(wts, new) ==
    Append(wts, [path |-> new.path, repo_id |-> new.repo_id,
                 branch |-> new.branch, status |-> new.status,
                 head |-> NoHead])

\* an UPDATE that never reaches the table
update_worktree_status_lost(wts, path, status, head) == wts

\* an UPDATE without its WHERE clause
update_worktree_status_unkeyed(wts, path, status, head) ==
    [i \in 1..Len(wts) |-> [wts[i] EXCEPT !.status = status, !.head = head]]

\* UPDATE ... WHERE path = ?: no row, no change, no error
update_worktree_status(wts, path, status, head) ==
    [i \in 1..Len(wts) |->
        IF wts[i].path = path
        THEN [wts[i] EXCEPT !.status = status, !.head = head]
        ELSE wts[i]]

\* a DELETE that only takes rows whose worktree is in use
delete_worktree_ready(wts, path) ==
    SelectSeq2(wts, [w \in SeqToSet(wts) |->
                        w.path # path \/ w.status # "ready"])

delete_worktree(wts, path) ==
    SelectSeq2(wts, [w \in SeqToSet(wts) |-> w.path # path])

get_worktree_config(cfgs, repo_id) == {c \in cfgs : c.repo_id = repo_id}

\* INSERT ... ON CONFLICT(repo_id) DO UPDATE
upsert_worktree_config(cfgs, config) ==
    {c \in cfgs : c.repo_id # config.repo_id} \cup {config}

\* the three DELETE statements of delete_repository, under one lock
\* a delete_repository whose DELETE of the worktree rows is missing
delete_repository_worktrees_kept(wts, id) == wts

delete_repository_worktrees(wts, id) ==
    SelectSeq2(wts, [w \in SeqToSet(wts) |-> w.repo_id # id])

delete_repository_config(cfgs, id) == {c \in cfgs : c.repo_id # id}

delete_repository_row(repos, id) == {r \in repos : r.id # id}

(***************************************************************************)
(* The filesystem below code_dir.                                          *)
(***************************************************************************)
exists(d, path) == path \in d

\* remove_dir_all of a repository root takes everything below it
remove_dir_all(d, path) ==
    IF path.leaf = <<>>
    THEN {e \in d : e.root # path.root}
    ELSE d \ {path}

(***************************************************************************)
(* StateManager (state.rs).                                                *)
(***************************************************************************)
RepoKey(id) == [repo_id |-> id]
PathKey(path) == [path |-> path]

remove_key(prog, key) == [k \in DOMAIN prog \ {key} |-> prog[k]]

\* an insert that replaces the whole map
set_progress_replacing(prog, key, message) ==
    IF message = {} THEN <<>>
    ELSE [k \in {key} |-> CHOOSE m \in message : TRUE]

\* set_progress(path, Some(msg)) / set_progress(path, None)
set_progress(prog, key, message) ==
    IF message = {}
    THEN remove_key(prog, key)
    ELSE [k \in DOMAIN prog \cup {key} |->
            IF k = key THEN CHOOSE m \in message : TRUE ELSE prog[k]]

Some(x) == {x}

get_repos_with_worktrees(repos, wts) ==
    LET l == list_repositories(repos)
    IN  [i \in 1..Len(l) |->
            [repo |-> l[i], worktrees |-> list_worktrees(wts, l[i].id)]]

get_full_state(repos, wts, prog) ==
    [repositories |-> get_repos_with_worktrees(repos, wts), progress |-> prog]

(***************************************************************************)
(* The broadcast channel StateManager.tx (tokio::sync::broadcast) as each  *)
(* receiver sees it: the values sent since it subscribed and not yet       *)
(* received.  The channel retains Capacity values; a receiver that is      *)
(* further behind loses the oldest and its next recv answers Lagged.       *)
(***************************************************************************)
Capacity == 16

MaxSubs == 1
MaxThreads == 2

Subs == 1..MaxSubs
Threads == 1..MaxThreads

NoSnapshot == [repositories |-> <<>>, progress |-> <<>>, none |-> TRUE]

\* a stream connection: the receiver's queue and what the client was sent.
\* first and seen are the first and the last message delivered, got their
\* number; owed are the snapshots sent since the initial one was computed
\* and not yet delivered, gap counts the sends between computing the
\* initial snapshot and the first poll of the stream
NoSub == [pc |-> "none", inbox |-> <<>>, lagged |-> FALSE,
          initial |-> NoSnapshot, first |-> NoSnapshot, seen |-> NoSnapshot,
          got |-> 0, owed |-> <<>>, gap |-> 0]

\* the receivers a send reaches: those created by subscribe() and not dropped
\* a receiver that exists only once the stream is polled
receivers_of_polled_streams(sb) == {s \in DOMAIN sb : sb[s].pc = "streaming"}

receivers(sb) ==
    {s \in DOMAIN sb : sb[s].pc \in {"subscribed", "initial", "streaming"}}

\* what was sent since the initial snapshot was computed
owes(sub, state) ==
    IF sub.pc \in {"initial", "streaming"}
    THEN Append(sub.owed, state) ELSE sub.owed

in_gap(sub) == IF sub.pc = "initial" THEN sub.gap + 1 ELSE sub.gap

enqueue(sub, state) ==
    IF Len(sub.inbox) < Capacity
    THEN [sub EXCEPT !.inbox = Append(sub.inbox, state)]
    ELSE [sub EXCEPT !.inbox = Append(Tail(sub.inbox), state),
                     !.lagged = TRUE]

\* tx.send(state): with no receiver the value is dropped (the Err is ignored)
send(sb, state) ==
    [s \in DOMAIN sb |->
        [(IF s \in receivers(sb) THEN enqueue(sb[s], state) ELSE sb[s])
            EXCEPT !.owed = owes(sb[s], state), !.gap = in_gap(sb[s])]]

RECURSIVE send_all(_, _)
send_all(sb, states) ==
    IF states = <<>> THEN sb
    ELSE send_all(send(sb, Head(states)), Tail(states))

(***************************************************************************)
(* Request handlers and pipelines (routes.rs, mcp.rs).  A task is a        *)
(* handler from its first store access on, then the pipeline it spawns.    *)
(* A handler that answers without spawning keeps its answer in resp until  *)
(* the response is written.  A step is one store call or one backend call  *)
(* together with the progress update and the pushes next to it.            *)
(***************************************************************************)
Tasks == 1..MaxTasks

\* a caller of set_progress or on_db_change, inside push_state
IdleThread == [pc |-> "idle", repositories |-> <<>>, state |-> NoSnapshot]

NoUrl == [form |-> "-", host |-> <<>>, segs |-> <<>>, git |-> FALSE]
NoPath == [root |-> <<>>, leaf |-> <<>>]

\* gone is history, not program state: the path whose row the deletion
\* pipeline that last ran as this task removed while another pipeline was
\* working on that path
IdleTask == [pc |-> "idle", fe |-> "-", url |-> NoUrl, repo_id |-> 0,
             local_path |-> <<>>, path |-> NoPath, branch |-> <<>>,
             list |-> <<>>, resp |-> "-", gone |-> {}]

FrontEnds == {"http", "mcp"}

\* a request is taken by the first free slot
FreeSlot(t) ==
    /\ tasks[t].pc = "idle"
    /\ \A u \in Tasks : u < t => tasks[u].pc # "idle"

\* the handler of a new request starts in slot t
Accept(t) ==
    /\ FreeSlot(t)
    /\ requests < MaxRequests
    /\ requests' = requests + 1
    /\ calls' = calls

Responded(resp, path) ==
    [IdleTask EXCEPT !.pc = "responded", !.resp = resp, !.path = path]

\* a snapshot computed before the store call of the step
StaleSnapshot == get_full_state(repositories, worktrees, progress')

\* push_state with the tables and the map as the step leaves them
Snapshot == get_full_state(repositories', worktrees', progress')

\* one push_state, or two (set_progress, then on_db_change)
PushOnce == subs' = send(subs, Snapshot)
PushTwice == subs' = send_all(subs, <<Snapshot, Snapshot>>)

\* the response of a handler is written and the connection is done
Return(t) ==
    /\ tasks[t].pc = "responded"
    /\ tasks' = [tasks EXCEPT ![t] = IdleTask]
    /\ UNCHANGED <<store, progress, dirs, subs, threads, requests, calls>>

(***************************************************************************)
(* clone                                                                   *)
(***************************************************************************)
NewRepository(parsed, url) ==
    [provider |-> parsed.provider, username |-> parsed.username,
     name |-> parsed.name, clone_url |-> url,
     local_path |-> local_path_of(parsed),
     default_branch |-> Main, last_synced |-> "never"]

\* the Result<Option<Row>> of a store lookup
StoreOk(rows) == [ok |-> TRUE, rows |-> rows]
StoreErr == [ok |-> FALSE, rows |-> {}]

\* if let Ok(Some(row)) = lookup: the rows the pattern binds
ok_some(lookup) == IF lookup.ok THEN lookup.rows ELSE {}

\* clone_repository up to the existence check (routes.rs and mcp.rs)
CloneRequest(t, url, fe) ==
    /\ Accept(t)
    /\ LET parsed == parse_git_url(url)
       IN  IF parsed = {}
           THEN tasks' = [tasks EXCEPT ![t] = Responded("invalid_url", NoPath)]
           ELSE LET p == CHOOSE x \in parsed : TRUE
                    existing == ok_some(StoreOk(get_repository_by_name(
                                    repositories, p.provider, p.username, p.name)))
                IN  IF existing # {}
                    THEN tasks' = [tasks EXCEPT ![t] =
                            Responded("already_exists",
                                RootDir((CHOOSE r \in existing : TRUE).local_path))]
                    ELSE /\ next_id <= MaxRepos
                         /\ tasks' = [tasks EXCEPT ![t] =
                                [IdleTask EXCEPT !.pc = "clone_insert",
                                                 !.fe = fe, !.url = url]]
    /\ UNCHANGED <<store, progress, dirs, subs, threads>>

\* clone_repository up to the existence check, when get_repository_by_name
\* returns Err: the pattern does not match and the handler goes on; resp
\* keeps what the lookup returned
CloneRequestStoreError(t, url, fe) ==
    /\ Accept(t)
    /\ LET parsed == parse_git_url(url)
       IN  IF parsed = {}
           THEN tasks' = [tasks EXCEPT ![t] = Responded("invalid_url", NoPath)]
           ELSE LET existing == ok_some(StoreErr)
                IN  IF existing # {}
                    THEN tasks' = [tasks EXCEPT ![t] =
                            Responded("already_exists",
                                RootDir((CHOOSE r \in existing : TRUE).local_path))]
                    ELSE /\ next_id <= MaxRepos
                         /\ tasks' = [tasks EXCEPT ![t] =
                                [IdleTask EXCEPT !.pc = "clone_insert",
                                                 !.fe = fe, !.url = url,
                                                 !.resp = "lookup_failed"]]
    /\ UNCHANGED <<store, progress, dirs, subs, threads>>

\* clone_repository from insert_repository to tokio::spawn(do_clone)
CloneInsert(t) ==
    /\ tasks[t].pc = "clone_insert"
    /\ LET p == CHOOSE x \in parse_git_url(tasks[t].url) : TRUE
           new == NewRepository(p, tasks[t].url)
       IN  IF insert_repository_ok(repositories, new)
           THEN /\ repositories' = insert_repository(repositories, next_id, new)
                /\ next_id' = next_id + 1
                /\ progress' = set_progress(progress, RepoKey(next_id),
                                            Some("Cloning repository..."))
                /\ UNCHANGED <<worktrees, worktree_config, dirs, threads, requests, calls>>
                /\ PushTwice
                /\ tasks' = [tasks EXCEPT ![t] =
                        [IdleTask EXCEPT !.pc = "c_prepare", !.url = tasks[t].url,
                                         !.repo_id = next_id,
                                         !.local_path = new.local_path]]
           ELSE /\ tasks' = [tasks EXCEPT ![t] =
                        [Responded("internal_error", NoPath)
                            EXCEPT !.url = tasks[t].url]]
                /\ UNCHANGED <<store, progress, dirs, subs, threads, requests, calls>>

Rollback(t) == tasks' = [tasks EXCEPT ![t].pc = "c_rollback"]
Goto(t, pc) == tasks' = [tasks EXCEPT ![t].pc = pc]

\* do_clone: remove an existing directory, create_dir_all
CloneStepPrepare(t) ==
    /\ tasks[t].pc = "c_prepare"
    /\ UNCHANGED <<store, threads, requests, calls>>
    /\ LET lp == RootDir(tasks[t].local_path)
           there == exists(dirs, lp)
       IN  /\ progress' = IF there
                          THEN set_progress(progress, RepoKey(tasks[t].repo_id),
                                   Some("Cleaning up existing directory..."))
                          ELSE progress
           /\ IF there THEN PushOnce ELSE subs' = subs
           /\ \E outcome \in {"ok", "remove_failed", "create_failed"} :
                /\ outcome = "remove_failed" => there
                /\ dirs' = CASE outcome = "ok" ->
                                    remove_dir_all(dirs, lp) \cup {lp}
                             [] outcome = "remove_failed" -> dirs
                             [] outcome = "create_failed" ->
                                    remove_dir_all(dirs, lp)
                /\ IF outcome = "ok" THEN Goto(t, "c_bare") ELSE Rollback(t)

\* do_clone 1: clone_bare
CloneStepBare(t) ==
    /\ tasks[t].pc = "c_bare"
    /\ UNCHANGED <<store, threads, requests, calls>>
    /\ progress' = set_progress(progress, RepoKey(tasks[t].repo_id),
                                Some("Cloning repository..."))
    /\ PushOnce
    /\ \E ok \in BOOLEAN :
        IF ok
        THEN /\ dirs' = dirs \cup {RootDir(tasks[t].local_path),
                                   JoinDir(tasks[t].local_path, BareDir)}
             /\ Goto(t, "c_config")
        ELSE /\ dirs' = dirs
             /\ Rollback(t)

\* do_clone 2 and 3: write the .git pointer file, git config
CloneStepConfig(t) ==
    /\ tasks[t].pc = "c_config"
    /\ UNCHANGED <<store, threads, requests, calls>>
    /\ progress' = set_progress(progress, RepoKey(tasks[t].repo_id),
                                Some("Configuring repository..."))
    /\ PushOnce
    /\ \E outcome \in {"ok", "write_failed", "config_failed"} :
        /\ outcome # "write_failed" =>
                exists(dirs, RootDir(tasks[t].local_path))
        /\ outcome = "ok" =>
                exists(dirs, JoinDir(tasks[t].local_path, BareDir))
        /\ dirs' = IF outcome = "write_failed" THEN dirs
                   ELSE dirs \cup {JoinDir(tasks[t].local_path, GitFile)}
        /\ IF outcome = "ok" THEN Goto(t, "c_fetch") ELSE Rollback(t)

\* do_clone 4: fetch
CloneStepFetch(t) ==
    /\ tasks[t].pc = "c_fetch"
    /\ UNCHANGED <<store, dirs, threads, requests, calls>>
    /\ progress' = set_progress(progress, RepoKey(tasks[t].repo_id),
                                Some("Fetching branches..."))
    /\ PushOnce
    /\ \E ok \in BOOLEAN :
        /\ ok => exists(dirs, JoinDir(tasks[t].local_path, BareDir))
        /\ IF ok THEN Goto(t, "c_detect") ELSE Rollback(t)

MainPath(t) == JoinDir(tasks[t].local_path, MainDir)

\* do_clone 5: detect_default_branch (or "main"), update the repository row
CloneStepDetect(t) ==
    /\ tasks[t].pc = "c_detect"
    /\ UNCHANGED <<worktrees, worktree_config, next_id, dirs, threads, requests, calls>>
    /\ \E default_branch \in DetectedBranches :
        /\ repositories' = update_repository_synced(
                update_repository_default_branch(
                    repositories, tasks[t].repo_id, default_branch),
                tasks[t].repo_id)
        /\ tasks' = [tasks EXCEPT ![t].pc = "c_insert_wt",
                                  ![t].branch = default_branch]
    /\ progress' = set_progress(progress, RepoKey(tasks[t].repo_id),
                                Some("Detecting default branch..."))
    /\ subs' = send_all(subs,
            <<get_full_state(repositories, worktrees, progress'), Snapshot>>)

\* do_clone 6: insert the primary worktree row, status creating
CloneStepInsertWorktree(t) ==
    /\ tasks[t].pc = "c_insert_wt"
    /\ UNCHANGED <<repositories, worktree_config, next_id, dirs, threads, requests, calls>>
    /\ progress' = set_progress(progress, RepoKey(tasks[t].repo_id),
                                Some("Creating main worktree..."))
    /\ LET new == [path |-> MainPath(t), repo_id |-> tasks[t].repo_id,
                   branch |-> tasks[t].branch, status |-> "creating"]
       IN  IF insert_worktree_ok(repositories, worktrees, new)
           THEN /\ worktrees' = insert_worktree(worktrees, new)
                /\ subs' = send_all(subs,
                        <<get_full_state(repositories, worktrees, progress'),
                          Snapshot>>)
                /\ Goto(t, "c_create_wt")
           ELSE /\ worktrees' = worktrees
                /\ PushOnce
                /\ Rollback(t)

\* do_clone 7: git branch -D (its result is dropped), GitOps::create_worktree
CloneStepCreateWorktree(t) ==
    /\ tasks[t].pc = "c_create_wt"
    /\ \E ok \in BOOLEAN :
        /\ ok => exists(dirs, JoinDir(tasks[t].local_path, BareDir))
        /\ dirs' = IF ok THEN dirs \cup {MainPath(t)} ELSE dirs
        /\ IF ok THEN Goto(t, "c_install") ELSE Rollback(t)
    /\ UNCHANGED <<store, progress, subs, threads, requests, calls>>

\* the outcomes of a backend call whose Err is matched and logged
Outcomes == {"ok", "failed"}

\* a failure that ends the pipeline where it occurs
propagated(outcome, next) == IF outcome = "failed" THEN "failed" ELSE next

\* if let Err(e) = .. { tracing::warn!(..) }: the pipeline goes on
logged(outcome, next) == next

\* do_clone 8: run_install for the detected package managers (skip_install
\* or no manager detected: "none"); a failure only changes the message
CloneStepInstall(t) ==
    /\ tasks[t].pc = "c_install"
    /\ UNCHANGED <<store, dirs, threads, requests, calls>>
    /\ \E outcome \in {"none", "ok", "failed"} :
        /\ progress' =
            CASE outcome = "none" -> progress
              [] outcome = "ok" ->
                    set_progress(progress, RepoKey(tasks[t].repo_id),
                                 Some("Installing (pm)..."))
              [] outcome = "failed" ->
                    set_progress(progress, RepoKey(tasks[t].repo_id),
                                 Some("Warning: pm install failed"))
        /\ subs' =
            CASE outcome = "none" -> subs
              [] outcome = "ok" -> send(subs, Snapshot)
              [] outcome = "failed" ->
                    send_all(subs,
                        <<get_full_state(repositories, worktrees,
                              set_progress(progress, RepoKey(tasks[t].repo_id),
                                           Some("Installing (pm)..."))),
                          Snapshot>>)
        /\ Goto(t, logged(outcome, "c_status"))

\* do_clone 9: get_status, update_worktree_status(ready),
\* update_worktree_git_status
CloneStepStatus(t) ==
    /\ tasks[t].pc = "c_status"
    /\ UNCHANGED <<repositories, worktree_config, next_id, dirs, threads, requests, calls>>
    /\ progress' = set_progress(progress, RepoKey(tasks[t].repo_id),
                                Some("Getting status..."))
    /\ subs' = send(subs, get_full_state(repositories, worktrees, progress'))
    /\ \/ \E head \in GitHeads :
            /\ exists(dirs, MainPath(t))
            /\ worktrees' = update_worktree_status(
                                worktrees, MainPath(t), "ready", head)
            /\ Goto(t, "c_upsert")
       \/ /\ worktrees' = worktrees
          /\ Rollback(t)

DefaultConfig(repo_id) ==
    [repo_id |-> repo_id, symlink_patterns |-> ".env,.env.*,.claude/**",
     copy_patterns |-> "", upstream_remote |-> "origin"]

\* do_clone 10: upsert_worktree_config, clear progress, push the final state
CloneStepUpsert(t) ==
    /\ tasks[t].pc = "c_upsert"
    /\ UNCHANGED <<repositories, worktrees, next_id, dirs, threads, requests, calls>>
    /\ worktree_config' = upsert_worktree_config(
                              worktree_config, DefaultConfig(tasks[t].repo_id))
    /\ progress' = set_progress(progress, RepoKey(tasks[t].repo_id), {})
    /\ PushTwice
    /\ tasks' = [tasks EXCEPT ![t] = IdleTask]

\* do_clone, "Handle cleanup on error": clear progress, delete_repository,
\* remove the directory (its failure is dropped), on_db_change
CloneStepRollback(t) ==
    /\ tasks[t].pc = "c_rollback"
    /\ UNCHANGED <<next_id, threads, requests, calls>>
    /\ progress' = set_progress(progress, RepoKey(tasks[t].repo_id), {})
    /\ worktrees' = delete_repository_worktrees(worktrees, tasks[t].repo_id)
    /\ worktree_config' =
            delete_repository_config(worktree_config, tasks[t].repo_id)
    /\ repositories' = delete_repository_row(repositories, tasks[t].repo_id)
    /\ \E removed \in BOOLEAN :
        dirs' = IF removed
                THEN remove_dir_all(dirs, RootDir(tasks[t].local_path))
                ELSE dirs
    /\ subs' = send_all(subs,
            <<get_full_state(repositories, worktrees, progress'), Snapshot>>)
    /\ tasks' = [tasks EXCEPT ![t] = IdleTask]

(***************************************************************************)
(* createWorktree                                                          *)
(***************************************************************************)
\* worktree_path.starts_with(&local_path)
starts_with(path, local_path) == path.root = local_path

\* create_worktree up to the existence check.  routes.rs trims and
\* validates the branch and looks the path up; mcp.rs does neither
create_worktree_lookup(repo_id, raw, fe, store_ok) ==
    LET found == get_repository(repositories, repo_id)
        repo == CHOOSE r \in found : TRUE
        branch == IF fe = "http" THEN trim(raw) ELSE raw
        path == JoinDir(repo.local_path,
                        sanitize_branch_name(branch, repo.default_branch))
        lookup == IF store_ok THEN StoreOk(get_worktree(worktrees, path))
                  ELSE StoreErr
        go == [IdleTask EXCEPT !.pc = "cw_insert", !.fe = fe,
                               !.repo_id = repo_id,
                               !.local_path = repo.local_path,
                               !.path = path, !.branch = branch,
                               !.resp = IF store_ok THEN "-"
                                        ELSE "lookup_failed"]
    IN  IF found = {} THEN Responded("not_found", NoPath)
        ELSE IF fe = "mcp" THEN go
        ELSE IF invalid_branch(branch)
             THEN Responded("bad_request", NoPath)
        ELSE IF ~starts_with(path, repo.local_path)
             THEN Responded("bad_request", NoPath)
        ELSE IF ok_some(lookup) # {}
             THEN Responded("bad_request", path)
        ELSE go

create_worktree_handler(repo_id, raw, fe) ==
    create_worktree_lookup(repo_id, raw, fe, TRUE)

CreateWorktreeRequest(t, repo_id, raw, fe) ==
    /\ Accept(t)
    /\ tasks' = [tasks EXCEPT ![t] = create_worktree_handler(repo_id, raw, fe)]
    /\ UNCHANGED <<store, progress, dirs, subs, threads>>

\* create_worktree (routes.rs) when get_worktree returns Err
CreateWorktreeRequestStoreError(t, repo_id, raw) ==
    /\ Accept(t)
    /\ tasks' = [tasks EXCEPT ![t] =
                    create_worktree_lookup(repo_id, raw, "http", FALSE)]
    /\ UNCHANGED <<store, progress, dirs, subs, threads>>

\* create_worktree from insert_worktree to tokio::spawn
CreateWorktreeInsert(t) ==
    /\ tasks[t].pc = "cw_insert"
    /\ UNCHANGED <<repositories, worktree_config, next_id, dirs, threads, requests, calls>>
    /\ LET new == [path |-> tasks[t].path, repo_id |-> tasks[t].repo_id,
                   branch |-> tasks[t].branch, status |-> "creating"]
       IN  IF insert_worktree_ok(repositories, worktrees, new)
           THEN /\ worktrees' = insert_worktree(worktrees, new)
                /\ progress' = progress
                /\ PushOnce
                /\ tasks' = [tasks EXCEPT ![t].pc = "w_fetch", ![t].fe = "-",
                                          ![t].resp = "-"]
           ELSE /\ tasks' = [tasks EXCEPT ![t] =
                        Responded("internal_error", NoPath)]
                /\ UNCHANGED <<worktrees, progress, subs>>

\* sync_main_worktree: fetch; a failure is logged
WorktreeStepFetch(t) ==
    /\ tasks[t].pc = "w_fetch"
    /\ UNCHANGED <<store, dirs, threads, requests, calls>>
    /\ progress' = set_progress(progress, RepoKey(tasks[t].repo_id),
                                Some("Fetching..."))
    /\ PushOnce
    /\ \E outcome \in Outcomes : Goto(t, logged(outcome, "w_pull"))

\* sync_main_worktree: pull the primary worktree; a failure is logged
WorktreeStepPull(t) ==
    /\ tasks[t].pc = "w_pull"
    /\ UNCHANGED <<store, dirs, threads, requests, calls>>
    /\ progress' = set_progress(progress, RepoKey(tasks[t].repo_id),
                                Some("Pulling main..."))
    /\ PushOnce
    /\ \E outcome \in Outcomes : Goto(t, logged(outcome, "w_install_main"))

\* sync_main_worktree: run_install in the primary worktree, clear progress
WorktreeStepInstallMain(t) ==
    /\ tasks[t].pc = "w_install_main"
    /\ UNCHANGED <<store, dirs, threads, requests, calls>>
    /\ progress' = set_progress(progress, RepoKey(tasks[t].repo_id), {})
    /\ \E managers \in BOOLEAN :
        subs' = IF managers
                THEN send_all(subs,
                        <<get_full_state(repositories, worktrees,
                              set_progress(progress, RepoKey(tasks[t].repo_id),
                                           Some("Installing main (pm)..."))),
                          Snapshot>>)
                ELSE send(subs, Snapshot)
    /\ \E outcome \in Outcomes : Goto(t, logged(outcome, "w_create"))

\* do_create_worktree 2: GitOps::create_worktree
WorktreeStepCreate(t) ==
    /\ tasks[t].pc = "w_create"
    /\ UNCHANGED <<store, threads, requests, calls>>
    /\ progress' = set_progress(progress, PathKey(tasks[t].path),
                                Some("Creating worktree..."))
    /\ PushOnce
    /\ \E ok \in BOOLEAN :
        /\ ok => exists(dirs, JoinDir(tasks[t].local_path, BareDir))
        /\ dirs' = IF ok THEN dirs \cup {tasks[t].path} ELSE dirs
        /\ Goto(t, IF ok THEN "w_share" ELSE "w_error")

\* do_create_worktree 3: share_files by the repository's patterns; a
\* failure is logged
WorktreeStepShare(t) ==
    /\ tasks[t].pc = "w_share"
    /\ UNCHANGED <<store, dirs, threads, requests, calls>>
    /\ progress' = set_progress(progress, PathKey(tasks[t].path),
                                Some("Sharing files..."))
    /\ PushOnce
    /\ \E outcome \in Outcomes : Goto(t, logged(outcome, "w_install"))

\* do_create_worktree 4: run_install in the new worktree; a failure is logged
WorktreeStepInstall(t) ==
    /\ tasks[t].pc = "w_install"
    /\ UNCHANGED <<store, dirs, threads, requests, calls>>
    /\ \E managers \in BOOLEAN :
        /\ progress' = IF managers
                       THEN set_progress(progress, PathKey(tasks[t].path),
                                         Some("Installing (pm)..."))
                       ELSE progress
        /\ subs' = IF managers THEN send(subs, Snapshot) ELSE subs
    /\ \E outcome \in Outcomes : Goto(t, logged(outcome, "w_status"))

\* do_create_worktree 5: get_status, update_worktree_status(ready),
\* update_worktree_git_status, clear both progress entries
WorktreeStepStatus(t) ==
    /\ tasks[t].pc = "w_status"
    /\ UNCHANGED <<repositories, worktree_config, next_id, dirs, threads, requests, calls>>
    /\ \/ \E head \in GitHeads :
            /\ exists(dirs, tasks[t].path)
            /\ worktrees' = update_worktree_status(
                                worktrees, tasks[t].path, "ready", head)
            /\ progress' = set_progress(
                    set_progress(progress, PathKey(tasks[t].path), {}),
                    RepoKey(tasks[t].repo_id), {})
            /\ subs' = send_all(subs,
                    <<get_full_state(repositories, worktrees,
                          set_progress(progress, PathKey(tasks[t].path),
                                       Some("Getting status..."))),
                      get_full_state(repositories, worktrees',
                          set_progress(progress, PathKey(tasks[t].path), {})),
                      Snapshot, Snapshot>>)
            /\ tasks' = [tasks EXCEPT ![t] = IdleTask]
       \/ /\ worktrees' = worktrees
          /\ progress' = set_progress(progress, PathKey(tasks[t].path),
                                      Some("Getting status..."))
          /\ PushOnce
          /\ Goto(t, "w_error")

\* the spawned task of create_worktree on Err: status error, on_db_change
WorktreeStepError(t) ==
    /\ tasks[t].pc = "w_error"
    /\ UNCHANGED <<repositories, worktree_config, next_id, progress, dirs,
                   threads, requests, calls>>
    /\ worktrees' = update_worktree_status(
                        worktrees, tasks[t].path, "error", NoHead)
    /\ PushOnce
    /\ tasks' = [tasks EXCEPT ![t] = IdleTask]

(***************************************************************************)
(* deleteWorktree                                                          *)
(***************************************************************************)
\* delete_worktree up to tokio::spawn: both lookups, status deleting
DeleteWorktreeRequest(t, path, fe) ==
    /\ Accept(t)
    /\ UNCHANGED <<repositories, worktree_config, next_id, progress, dirs,
                   threads>>
    /\ LET found == get_worktree(worktrees, path)
           worktree == CHOOSE w \in found : TRUE
           repos == get_repository(repositories, worktree.repo_id)
       IN  IF found = {} \/ repos = {}
           THEN /\ tasks' = [tasks EXCEPT ![t] = Responded("not_found", NoPath)]
                /\ UNCHANGED <<worktrees, subs>>
           ELSE /\ worktrees' = update_worktree_status(
                                    worktrees, path, "deleting", worktree.head)
                /\ subs' = send(subs, get_full_state(repositories, worktrees',
                                                     progress))
                /\ tasks' = [tasks EXCEPT ![t] =
                        [IdleTask EXCEPT !.pc = "d_remove", !.path = path,
                            !.local_path =
                                (CHOOSE r \in repos : TRUE).local_path]]

\* the spawned task: git worktree remove --force; a failure is logged
DeleteStepRemove(t) ==
    /\ tasks[t].pc = "d_remove"
    /\ \E ok \in BOOLEAN :
        dirs' = IF ok THEN remove_dir_all(dirs, tasks[t].path) ELSE dirs
    /\ Goto(t, "d_rmdir")
    /\ UNCHANGED <<store, progress, subs, threads, requests, calls>>

\* the spawned task: remove_dir_all if the directory is still there
DeleteStepRmdir(t) ==
    /\ tasks[t].pc = "d_rmdir"
    /\ \E ok \in BOOLEAN :
        dirs' = IF ok /\ exists(dirs, tasks[t].path)
                THEN remove_dir_all(dirs, tasks[t].path) ELSE dirs
    /\ Goto(t, "d_db")
    /\ UNCHANGED <<store, progress, subs, threads, requests, calls>>

\* the steps of a clone pipeline between create_dir_all and its end
Populating ==
    {"c_bare", "c_config", "c_fetch", "c_detect", "c_insert_wt",
     "c_create_wt", "c_install", "c_status", "c_upsert"}

\* the steps of a worktree-creation pipeline
Creating ==
    {"w_fetch", "w_pull", "w_install_main", "w_create", "w_share",
     "w_install", "w_status", "w_error"}

\* the paths the pipeline of task o writes worktree rows for: the path of a
\* creation pipeline, <local_path>/.main of a clone pipeline, the paths a
\* refresh pipeline has listed
paths_of(o) ==
    IF tasks[o].pc \in Creating THEN {tasks[o].path}
    ELSE IF tasks[o].pc \in Populating \cup {"c_prepare", "c_rollback"}
    THEN {MainPath(o)}
    ELSE IF tasks[o].pc = "r_loop" THEN SeqToSet(tasks[o].list)
    ELSE {}

\* the spawned task: delete the row whatever happened before, on_db_change
DeleteStepDb(t) ==
    /\ tasks[t].pc = "d_db"
    /\ UNCHANGED <<repositories, worktree_config, next_id, progress, dirs,
                   threads, requests, calls>>
    /\ worktrees' = delete_worktree(worktrees, tasks[t].path)
    /\ subs' = send(subs, get_full_state(repositories, worktrees', progress))
    /\ tasks' = [tasks EXCEPT ![t] =
            IF /\ get_worktree(worktrees, tasks[t].path) # {}
               /\ \E o \in Tasks : tasks[t].path \in paths_of(o)
            THEN [IdleTask EXCEPT !.gone = {tasks[t].path}]
            ELSE IdleTask]

(***************************************************************************)
(* deleteRepository                                                        *)
(***************************************************************************)
\* routes.rs delete_repository: lookup, progress "Deleting...", on_db_change
DeleteRepositoryRequest(t, id) ==
    /\ Accept(t)
    /\ UNCHANGED <<store, dirs, threads>>
    /\ LET found == get_repository(repositories, id)
       IN  IF found = {}
           THEN /\ tasks' = [tasks EXCEPT ![t] = Responded("not_found", NoPath)]
                /\ UNCHANGED <<progress, subs>>
           ELSE /\ progress' = set_progress(progress, RepoKey(id),
                                            Some("Deleting..."))
                /\ PushTwice
                /\ tasks' = [tasks EXCEPT ![t] =
                        [IdleTask EXCEPT !.pc = "x_rmdir", !.repo_id = id,
                            !.local_path =
                                (CHOOSE r \in found : TRUE).local_path]]

\* a removal whose error is dropped instead of returned
after_remove_dropped(task, ok) == [task EXCEPT !.pc = "x_db"]

\* .map_err(ApiError::Internal)?: a failed removal ends the handler
after_remove(task, ok) ==
    IF ok THEN [task EXCEPT !.pc = "x_db"]
    ELSE Responded("internal_error", NoPath)

\* routes.rs delete_repository: remove_dir_all; its error is the response
DeleteRepositoryRmdir(t) ==
    /\ tasks[t].pc = "x_rmdir"
    /\ LET lp == RootDir(tasks[t].local_path)
       IN  \E ok \in BOOLEAN :
            /\ ~ok => exists(dirs, lp)
            /\ dirs' = IF ok THEN remove_dir_all(dirs, lp) ELSE dirs
            /\ tasks' = [tasks EXCEPT ![t] = after_remove(tasks[t], ok)]
    /\ UNCHANGED <<store, progress, subs, threads, requests, calls>>

\* routes.rs delete_repository: db.delete_repository, clear progress
DeleteRepositoryDb(t) ==
    /\ tasks[t].pc = "x_db"
    /\ UNCHANGED <<next_id, dirs, threads, requests, calls>>
    /\ worktrees' = delete_repository_worktrees(worktrees, tasks[t].repo_id)
    /\ worktree_config' =
            delete_repository_config(worktree_config, tasks[t].repo_id)
    /\ repositories' = delete_repository_row(repositories, tasks[t].repo_id)
    /\ progress' = set_progress(progress, RepoKey(tasks[t].repo_id), {})
    /\ PushTwice
    /\ tasks' = [tasks EXCEPT ![t] = Responded("ok", NoPath)]

\* mcp.rs delete_repository: db.delete_repository and on_db_change, no more
DeleteRepositoryMcp(t, id) ==
    /\ Accept(t)
    /\ UNCHANGED <<next_id, dirs, threads>>
    /\ worktrees' = delete_repository_worktrees(worktrees, id)
    /\ worktree_config' = delete_repository_config(worktree_config, id)
    /\ repositories' = delete_repository_row(repositories, id)
    /\ progress' = progress
    /\ PushOnce
    /\ tasks' = [tasks EXCEPT ![t] = Responded("ok", NoPath)]

(***************************************************************************)
(* refresh (routes.rs refresh_repository, mcp.rs refresh_worktrees)        *)
(***************************************************************************)
RefreshRequest(t, id) ==
    /\ Accept(t)
    /\ LET found == get_repository(repositories, id)
       IN  tasks' = [tasks EXCEPT ![t] =
             IF found = {} THEN Responded("not_found", NoPath)
             ELSE [IdleTask EXCEPT !.pc = "r_fetch", !.repo_id = id,
                       !.local_path = (CHOOSE r \in found : TRUE).local_path]]
    /\ UNCHANGED <<store, progress, dirs, subs, threads>>

\* the spawned task: progress "Fetching...", fetch; a failure is logged
RefreshStepFetch(t) ==
    /\ tasks[t].pc = "r_fetch"
    /\ UNCHANGED <<store, dirs, threads, requests, calls>>
    /\ progress' = set_progress(progress, RepoKey(tasks[t].repo_id),
                                Some("Fetching..."))
    /\ PushOnce
    /\ Goto(t, "r_list")

\* the spawned task: list_worktrees
RefreshStepList(t) ==
    /\ tasks[t].pc = "r_list"
    /\ LET l == list_worktrees(worktrees, tasks[t].repo_id)
       IN  tasks' = [tasks EXCEPT ![t].pc = "r_loop",
                                  ![t].list = [i \in 1..Len(l) |-> l[i].path]]
    /\ UNCHANGED <<store, progress, dirs, subs, threads, requests, calls>>

\* the status a refresh writes for a worktree whose get_status succeeded
refresh_status(worktree_status) == "ready"

\* the spawned task, one worktree of the list: get_status and, if Ok,
\* update_worktree_status and update_worktree_git_status
RefreshStepWorktree(t) ==
    /\ tasks[t].pc = "r_loop"
    /\ tasks[t].list # <<>>
    /\ LET path == Head(tasks[t].list)
       IN  \/ \E head \in GitHeads :
                /\ exists(dirs, path)
                /\ worktrees' =
                    [i \in 1..Len(worktrees) |->
                        IF worktrees[i].path = path
                        THEN [worktrees[i] EXCEPT
                                !.status = refresh_status(worktrees[i].status),
                                !.head = head]
                        ELSE worktrees[i]]
           \/ worktrees' = worktrees
    /\ tasks' = [tasks EXCEPT ![t].list = Tail(tasks[t].list)]
    /\ UNCHANGED <<repositories, worktree_config, next_id, progress, dirs,
                   subs, threads, requests, calls>>

\* the spawned task: update_repository_synced, clear progress, on_db_change
RefreshStepFinish(t) ==
    /\ tasks[t].pc = "r_loop"
    /\ UNCHANGED <<worktrees, worktree_config, next_id, dirs, threads, requests, calls>>
    /\ tasks[t].list = <<>>
    /\ repositories' = update_repository_synced(repositories, tasks[t].repo_id)
    /\ progress' = set_progress(progress, RepoKey(tasks[t].repo_id), {})
    /\ PushTwice
    /\ tasks' = [tasks EXCEPT ![t] = IdleTask]

(***************************************************************************)
(* The orchestrator: no stream client is connected.                        *)
(***************************************************************************)
RepoIds == 1..MaxRepos

LocalPaths == {local_path_of(p) : p \in UNION {parse_git_url(u) : u \in Urls}}

PathInputs ==
    {JoinDir(lp, sanitize_branch_name(b, d)) :
        lp \in LocalPaths, b \in BranchInputs, d \in DetectedBranches}

Init ==
    /\ repositories = {}
    /\ worktrees = <<>>
    /\ worktree_config = {}
    /\ next_id = 1
    /\ progress = <<>>
    /\ dirs = {}
    /\ tasks = [t \in Tasks |-> IdleTask]
    /\ subs = [s \in Subs |-> NoSub]
    /\ threads = [th \in Threads |-> IdleThread]
    /\ requests = 0
    /\ calls = 0

Next ==
    \E t \in Tasks :
        \/ Return(t)
        \/ \E url \in Urls, fe \in FrontEnds : CloneRequest(t, url, fe)
        \/ CloneInsert(t)
        \/ CloneStepPrepare(t)
        \/ CloneStepBare(t)
        \/ CloneStepConfig(t)
        \/ CloneStepFetch(t)
        \/ CloneStepDetect(t)
        \/ CloneStepInsertWorktree(t)
        \/ CloneStepCreateWorktree(t)
        \/ CloneStepInstall(t)
        \/ CloneStepStatus(t)
        \/ CloneStepUpsert(t)
        \/ CloneStepRollback(t)
        \/ \E id \in RepoIds, b \in BranchInputs, fe \in FrontEnds :
                CreateWorktreeRequest(t, id, b, fe)
        \/ CreateWorktreeInsert(t)
        \/ WorktreeStepFetch(t)
        \/ WorktreeStepPull(t)
        \/ WorktreeStepInstallMain(t)
        \/ WorktreeStepCreate(t)
        \/ WorktreeStepShare(t)
        \/ WorktreeStepInstall(t)
        \/ WorktreeStepStatus(t)
        \/ WorktreeStepError(t)
        \/ \E path \in PathInputs, fe \in FrontEnds :
                DeleteWorktreeRequest(t, path, fe)
        \/ DeleteStepRemove(t)
        \/ DeleteStepRmdir(t)
        \/ DeleteStepDb(t)
        \/ \E id \in RepoIds : DeleteRepositoryRequest(t, id)
        \/ DeleteRepositoryRmdir(t)
        \/ DeleteRepositoryDb(t)
        \/ \E id \in RepoIds : DeleteRepositoryMcp(t, id)
        \/ \E id \in RepoIds : RefreshRequest(t, id)
        \/ RefreshStepFetch(t)
        \/ RefreshStepList(t)
        \/ RefreshStepWorktree(t)
        \/ RefreshStepFinish(t)

Spec == Init /\ [][Next]_vars

(***************************************************************************)
(* The broadcast with a stream client connected.  Pipelines run on the     *)
(* multi-thread runtime: a caller of set_progress or on_db_change is a     *)
(* thread that changes the map or the store and then runs push_state,      *)
(* whose reads and whose send are separate steps.                          *)
(***************************************************************************)
Busy(th, pc) == threads' = [threads EXCEPT ![th].pc = pc]

\* StateManager::set_progress: the write under the lock, then schedule_push;
\* limit is the number of calls the run allows
SetProgress(th, key, message, limit) ==
    /\ threads[th].pc = "idle"
    /\ calls < limit
    /\ progress' = set_progress(progress, key, message)
    /\ Busy(th, "read_store")
    /\ calls' = calls + 1
    /\ UNCHANGED <<store, dirs, tasks, subs, requests>>

\* a pipeline's update_worktree_status followed by on_db_change
WriteStatus(th, path, status, limit) ==
    /\ threads[th].pc = "idle"
    /\ calls < limit
    /\ worktrees' = update_worktree_status(
                        worktrees, path, status,
                        IF status = "ready" THEN "c1" ELSE NoHead)
    /\ Busy(th, "read_store")
    /\ calls' = calls + 1
    /\ UNCHANGED <<repositories, worktree_config, next_id, progress, dirs,
                   tasks, subs, requests>>

\* push_state, get_full_state: get_repos_with_worktrees
PushReadStore(th) ==
    /\ threads[th].pc = "read_store"
    /\ threads' = [threads EXCEPT
            ![th].pc = "read_progress",
            ![th].repositories =
                get_repos_with_worktrees(repositories, worktrees)]
    /\ UNCHANGED <<store, progress, dirs, tasks, subs, requests, calls>>

\* push_state, get_full_state: the clone of the progress map
PushReadProgress(th) ==
    /\ threads[th].pc = "read_progress"
    /\ threads' = [threads EXCEPT
            ![th].pc = "send",
            ![th].state = [repositories |-> threads[th].repositories,
                           progress |-> progress]]
    /\ UNCHANGED <<store, progress, dirs, tasks, subs, requests, calls>>

\* push_state: tx.send(state)
PushSend(th) ==
    /\ threads[th].pc = "send"
    /\ subs' = send(subs, threads[th].state)
    /\ threads' = [threads EXCEPT ![th] = IdleThread]
    /\ UNCHANGED <<store, progress, dirs, tasks, requests, calls>>

\* sse_handler: let rx = state.state.subscribe()
SseSubscribe(s) ==
    /\ subs[s].pc = "none"
    /\ subs' = [subs EXCEPT ![s].pc = "subscribed"]
    /\ UNCHANGED <<store, progress, dirs, tasks, threads, requests, calls>>

\* sse_handler: let initial = state.state.get_full_state()
SseInitial(s) ==
    /\ subs[s].pc = "subscribed"
    /\ subs' = [subs EXCEPT
            ![s].pc = "initial",
            ![s].initial = get_full_state(repositories, worktrees, progress)]
    /\ UNCHANGED <<store, progress, dirs, tasks, threads, requests, calls>>

\* the stream's first poll: yield the initial snapshot
SseYieldInitial(s) ==
    /\ subs[s].pc = "initial"
    /\ subs' = [subs EXCEPT ![s].pc = "streaming",
                            ![s].first = subs[s].initial,
                            ![s].seen = subs[s].initial,
                            ![s].got = 1]
    /\ UNCHANGED <<store, progress, dirs, tasks, threads, requests, calls>>

\* while let Some(Ok(state)) = stream.next().await: a value is yielded; a
\* receiver that lagged gets Err(Lagged), which ends the loop and the stream
SseRecv(s) ==
    /\ subs[s].pc = "streaming"
    /\ IF subs[s].lagged
       THEN subs' = [subs EXCEPT ![s].pc = "closed", ![s].inbox = <<>>]
       ELSE /\ subs[s].inbox # <<>>
            /\ subs' = [subs EXCEPT
                    ![s].inbox = Tail(subs[s].inbox),
                    ![s].seen = Head(subs[s].inbox),
                    ![s].got = subs[s].got + 1,
                    ![s].owed = IF Len(subs[s].owed) = Len(subs[s].inbox)
                                THEN Tail(subs[s].owed) ELSE subs[s].owed]
    /\ UNCHANGED <<store, progress, dirs, tasks, threads, requests, calls>>

\* one repository cloned, its primary worktree ready, nothing in flight
ClonedRepository ==
    [NewRepositoryRow(1, NewRepository(
        CHOOSE p \in parse_git_url(UrlHttps) : TRUE, UrlHttps))
     EXCEPT !.last_synced = "now"]

ClonedWorktree ==
    [path |-> JoinDir(ClonedRepository.local_path, MainDir), repo_id |-> 1,
     branch |-> Main, status |-> "ready", head |-> "c1"]

InitBroadcast ==
    /\ repositories = {ClonedRepository}
    /\ worktrees = <<ClonedWorktree>>
    /\ worktree_config = {DefaultConfig(1)}
    /\ next_id = 2
    /\ progress = <<>>
    /\ dirs = {RootDir(ClonedRepository.local_path),
               JoinDir(ClonedRepository.local_path, BareDir),
               JoinDir(ClonedRepository.local_path, GitFile),
               ClonedWorktree.path}
    /\ tasks = [t \in Tasks |-> IdleTask]
    /\ subs = [s \in Subs |-> NoSub]
    /\ threads = [th \in Threads |-> IdleThread]
    /\ requests = 0
    /\ calls = 0

ProgressMessages == {Some("Fetching..."), {}}
StatusWrites == {"ready", "error"}

NextBroadcast ==
    \/ \E th \in Threads :
            \/ \E message \in ProgressMessages :
                    SetProgress(th, RepoKey(1), message, MaxCalls)
            \/ \E status \in StatusWrites :
                    WriteStatus(th, ClonedWorktree.path, status, MaxCalls)
            \/ PushReadStore(th)
            \/ PushReadProgress(th)
            \/ PushSend(th)
    \/ \E s \in Subs :
            \/ SseSubscribe(s)
            \/ SseInitial(s)
            \/ SseYieldInitial(s)
            \/ SseRecv(s)

SpecBroadcast == InitBroadcast /\ [][NextBroadcast]_vars

\* one pipeline that sets and clears its progress entry over and over, long
\* enough to overrun the channel
NextLag ==
    \/ SetProgress(1, RepoKey(1),
                   IF progress = <<>> THEN Some("Fetching...") ELSE {},
                   Capacity + 2)
    \/ PushReadStore(1)
    \/ PushReadProgress(1)
    \/ PushSend(1)
    \/ \E s \in Subs :
            \/ SseSubscribe(s)
            \/ SseInitial(s)
            \/ SseYieldInitial(s)
            \/ SseRecv(s)

SpecLag == InitBroadcast /\ [][NextLag]_vars

(***************************************************************************)
(* Worktree status (claims C1 to C3).  A row is identified by its path,    *)
(* the primary key.                                                        *)
(***************************************************************************)
\* the status of the row at path in table wts, as a set
status_of(wts, path) == {w.status : w \in get_worktree(wts, path)}

WorktreePaths == {w.path : w \in SeqToSet(worktrees)}

\* C1: whenever a worktree row's status changes to ready, its status
\* immediately before the change was creating
C1_ReadyOnlyFromCreating ==
    [][\A path \in WorktreePaths :
        ("ready" \in status_of(worktrees', path)
            /\ "ready" \notin status_of(worktrees, path))
        => "creating" \in status_of(worktrees, path)]_vars

\* C2: whenever a worktree row's status changes to error, its status
\* immediately before the change was creating
C2_ErrorOnlyFromCreating ==
    [][\A path \in WorktreePaths :
        ("error" \in status_of(worktrees', path)
            /\ "error" \notin status_of(worktrees, path))
        => "creating" \in status_of(worktrees, path)]_vars

\* C3: a worktree row whose status is error keeps it until it is deleted;
\* the only changes allowed are to deleting and the removal of the row
C3_ErrorOnlyLeavesByDeletion ==
    [][\A path \in WorktreePaths :
        "error" \in status_of(worktrees, path)
        => status_of(worktrees', path) \subseteq {"error", "deleting"}]_vars

(***************************************************************************)
(* Progress at rest (claim C4).                                            *)
(***************************************************************************)
\* no handler and no pipeline is running
Settled == \A t \in Tasks : tasks[t].pc = "idle"

\* C4: whenever no pipeline is in flight the snapshot holds the store's
\* repositories and worktrees and an empty progress map
C4_SettledSnapshotHasNoProgress ==
    Settled =>
        get_full_state(repositories, worktrees, progress)
            = [repositories |-> get_repos_with_worktrees(repositories, worktrees),
               progress |-> <<>>]

(***************************************************************************)
(* The stream (claims C5 to C7).                                           *)
(***************************************************************************)
Quiescent == \A th \in Threads : threads[th].pc = "idle"

\* C5: snapshots are sent in the order of the states they were computed
\* from, so once no push is under way the last snapshot a subscriber was
\* delivered is the current state
C5_LastDeliveredIsCurrent ==
    \A s \in Subs :
        (Quiescent /\ subs[s].pc = "streaming" /\ ~subs[s].lagged
            /\ subs[s].inbox = <<>>)
        => subs[s].seen = get_full_state(repositories, worktrees, progress)

\* C6: a subscriber that fell more than the channel capacity behind keeps
\* its stream: it is not closed
C6_LaggingStreamStaysOpen ==
    \A s \in Subs : subs[s].lagged => subs[s].pc # "closed"

\* s is the suffix of t
is_suffix(s, t) ==
    /\ Len(s) <= Len(t)
    /\ \A i \in 1..Len(s) : s[i] = t[Len(t) - Len(s) + i]

\* C7: the first message of a stream is the full snapshot computed at
\* connect, and every snapshot sent since that one was computed is either
\* delivered or queued behind it for this subscriber, unless it lagged
C7_NoGapAfterInitialSnapshot ==
    \A s \in Subs :
        /\ subs[s].got >= 1 =>
                /\ subs[s].initial # NoSnapshot
                /\ subs[s].first = subs[s].initial
        /\ (subs[s].pc \in {"initial", "streaming"} /\ ~subs[s].lagged)
                => is_suffix(subs[s].owed, subs[s].inbox)

\* a snapshot sent between computing the initial snapshot and the first poll
\* of the stream has been delivered after the initial one
C7_Witness ==
    \E s \in Subs :
        /\ subs[s].pc = "streaming"
        /\ ~subs[s].lagged
        /\ subs[s].gap >= 1
        /\ subs[s].got >= 2
        /\ subs[s].owed = <<>>
        /\ subs[s].first = subs[s].initial

(***************************************************************************)
(* Repository identity (claims C8 to C10).                                 *)
(***************************************************************************)
\* the rows of one (provider, owner, name)
rows_of(p) ==
    {r \in repositories : r.provider = p.provider /\ r.username = p.username
                          /\ r.name = p.name}

Parsed == UNION {parse_git_url(u) : u \in Urls}

clone_pipelines(p) ==
    {t \in Tasks :
        /\ tasks[t].pc \in {"c_prepare", "c_bare", "c_config", "c_fetch",
                            "c_detect", "c_insert_wt", "c_create_wt",
                            "c_install", "c_status", "c_upsert", "c_rollback"}
        /\ \E q \in parse_git_url(tasks[t].url) :
            q.provider = p.provider /\ q.username = p.username
                /\ q.name = p.name}

\* C9: at most one repository row exists per (provider, owner, name) and at
\* most one clone pipeline runs for it
C9_OneRowAndOnePipeline ==
    \A p \in Parsed :
        /\ Cardinality(rows_of(p)) <= 1
        /\ Cardinality(clone_pipelines(p)) <= 1

\* C10: no two repository rows share a local_path, and each row's
\* local_path is code_dir/owner/name
C10_LocalPathUniqueAndDerived ==
    /\ \A r1, r2 \in repositories :
        r1.local_path = r2.local_path => r1 = r2
    /\ \A r \in repositories : r.local_path = <<r.username>> \o r.name

\* the clone of a URL that differs from a cloned one only in its provider
\* has been refused by the store
C10_Witness ==
    \E t \in Tasks, r \in repositories :
        /\ tasks[t].pc = "responded"
        /\ tasks[t].resp = "internal_error"
        /\ \E q \in parse_git_url(tasks[t].url) :
            /\ q.provider # r.provider
            /\ local_path_of(q) = r.local_path

(***************************************************************************)
(* C11: a clone of a new repository whose hard steps all succeed.          *)
(***************************************************************************)
\* clone requests alone, with the runtime: tokio runs the spawned do_clone
\* to its end, so a step of a clone pipeline that stays possible is taken
NextClone ==
    \E t \in Tasks :
        \/ Return(t)
        \/ \E url \in Urls, fe \in FrontEnds : CloneRequest(t, url, fe)
        \/ CloneInsert(t)
        \/ CloneStepPrepare(t)
        \/ CloneStepBare(t)
        \/ CloneStepConfig(t)
        \/ CloneStepFetch(t)
        \/ CloneStepDetect(t)
        \/ CloneStepInsertWorktree(t)
        \/ CloneStepCreateWorktree(t)
        \/ CloneStepInstall(t)
        \/ CloneStepStatus(t)
        \/ CloneStepUpsert(t)
        \/ CloneStepRollback(t)

CloneStep(t) ==
    \/ CloneStepPrepare(t)
    \/ CloneStepBare(t)
    \/ CloneStepConfig(t)
    \/ CloneStepFetch(t)
    \/ CloneStepDetect(t)
    \/ CloneStepInsertWorktree(t)
    \/ CloneStepCreateWorktree(t)
    \/ CloneStepInstall(t)
    \/ CloneStepStatus(t)
    \/ CloneStepUpsert(t)
    \/ CloneStepRollback(t)

SpecClone ==
    Init /\ [][NextClone]_vars /\ \A t \in Tasks : WF_vars(CloneStep(t))

\* the step of task t that ends its clone pipeline without a rollback
CloneCompletes(t) == tasks[t].pc = "c_upsert" /\ tasks'[t].pc = "idle"

\* C11: when the clone request returns, the repository row is there and has
\* no worktree row; the spawned pipeline comes to its end; when it ends
\* without a failed hard step and
\* the clone was the only intent, the repository has exactly one worktree
\* row, at <local_path>/.main with status ready and the detected branch,
\* and the row's default_branch is the detected branch
C11_CloneEndsWithPrimaryWorktree ==
    /\ [][\A t \in Tasks :
        /\ (tasks[t].pc = "clone_insert" /\ tasks'[t].pc = "c_prepare") =>
              /\ get_repository(repositories', tasks'[t].repo_id) # {}
              /\ list_worktrees(worktrees', tasks'[t].repo_id) = <<>>
        /\ (CloneCompletes(t) /\ requests = 1) =>
              LET rows == list_worktrees(worktrees', tasks[t].repo_id)
                  repo == get_repository(repositories', tasks[t].repo_id)
              IN  /\ Len(rows) = 1
                  /\ rows[1].path = MainPath(t)
                  /\ rows[1].status = "ready"
                  /\ rows[1].branch = tasks[t].branch
                  /\ repo # {}
                  /\ \A r \in repo : /\ r.default_branch = tasks[t].branch
                                     /\ r.local_path = tasks[t].local_path]_vars
    /\ \A t \in Tasks : (tasks[t].pc = "c_prepare") ~> (tasks[t].pc = "idle")

\* the only intent was a clone, it detected dev and it has ended
C11_Witness ==
    /\ requests = 1
    /\ \A t \in Tasks : tasks[t].pc = "idle"
    /\ \E r \in repositories :
        /\ r.default_branch = Dev
        /\ get_worktree_config(worktree_config, r.id) # {}
        /\ \E w \in SeqToSet(worktrees) :
            /\ w.path = JoinDir(r.local_path, MainDir)
            /\ w.status = "ready"
            /\ w.branch = Dev

(***************************************************************************)
(* The worktrees of a cloned repository, with the runtime: tokio runs a    *)
(* spawned task to its end (grove-cli main.rs, #[tokio::main]), so a step  *)
(* of a deletion pipeline that stays possible is taken.  The arrival of    *)
(* requests and the other pipelines are not forced.                        *)
(***************************************************************************)
NextWorktrees ==
    \E t \in Tasks :
        \/ Return(t)
        \/ \E id \in RepoIds, b \in BranchInputs, fe \in FrontEnds :
                CreateWorktreeRequest(t, id, b, fe)
        \/ CreateWorktreeInsert(t)
        \/ WorktreeStepFetch(t)
        \/ WorktreeStepPull(t)
        \/ WorktreeStepInstallMain(t)
        \/ WorktreeStepCreate(t)
        \/ WorktreeStepShare(t)
        \/ WorktreeStepInstall(t)
        \/ WorktreeStepStatus(t)
        \/ WorktreeStepError(t)
        \/ \E path \in PathInputs, fe \in FrontEnds :
                DeleteWorktreeRequest(t, path, fe)
        \/ DeleteStepRemove(t)
        \/ DeleteStepRmdir(t)
        \/ DeleteStepDb(t)
        \/ \E id \in RepoIds : DeleteRepositoryRequest(t, id)
        \/ DeleteRepositoryRmdir(t)
        \/ DeleteRepositoryDb(t)
        \/ \E id \in RepoIds : DeleteRepositoryMcp(t, id)
        \/ \E id \in RepoIds : RefreshRequest(t, id)
        \/ RefreshStepFetch(t)
        \/ RefreshStepList(t)
        \/ RefreshStepWorktree(t)
        \/ RefreshStepFinish(t)

DeleteStep(t) == DeleteStepRemove(t) \/ DeleteStepRmdir(t) \/ DeleteStepDb(t)

SpecWorktrees ==
    InitBroadcast /\ [][NextWorktrees]_vars
        /\ \A t \in Tasks : WF_vars(DeleteStep(t))

(***************************************************************************)
(* C14: an accepted deleteWorktree removes the row.                        *)
(***************************************************************************)
\* C14: once deleteWorktree(path) is accepted and its pipeline is spawned,
\* the store eventually holds no row for path, whatever the backend removal
\* and the directory removal did
C14_AcceptedDeleteRemovesRow ==
    \A t \in Tasks : \A path \in PathInputs :
        (tasks[t].pc = "d_remove" /\ tasks[t].path = path)
            ~> (get_worktree(worktrees, path) = {})

\* the primary worktree's row is gone although neither removal took its
\* directory away
C14_Witness ==
    /\ get_worktree(worktrees, ClonedWorktree.path) = {}
    /\ ClonedRepository \in repositories
    /\ exists(dirs, ClonedWorktree.path)
    /\ \A t \in Tasks : tasks[t].pc = "idle"

(***************************************************************************)
(* C12: the rollback of a failed clone.                                    *)
(***************************************************************************)
\* the step of task t that ends its clone pipeline after a failed hard step
CloneRollsBack(t) == tasks[t].pc = "c_rollback" /\ tasks'[t].pc = "idle"

\* what the store and the progress map hold of repository id
RepositoryGone(repos, wts, cfgs, prog, id) ==
    /\ get_repository(repos, id) = {}
    /\ list_worktrees(wts, id) = <<>>
    /\ get_worktree_config(cfgs, id) = {}
    /\ RepoKey(id) \notin DOMAIN prog

CreatePipeline ==
    {"cw_insert", "w_fetch", "w_pull", "w_install_main", "w_create",
     "w_share", "w_install", "w_status", "w_error"}

\* a step of create_worktree or of the pipeline it spawned, taken by task t
CreateStep(t) == tasks[t].pc \in CreatePipeline /\ tasks'[t] # tasks[t]

\* C13: no step of a createWorktree request or of its pipeline changes a
\* repository row or any worktree row but its own (the primary row among
\* them) or removes anything from disk; a failed backend create-worktree
\* step leaves the disk as it was, and the step that ends a failed pipeline
\* deletes no row and leaves its own row with status error
C13_FailedCreationKeepsTheRest ==
    [][\A t \in Tasks :
        CreateStep(t) =>
            /\ repositories' = repositories
            /\ worktree_config' = worktree_config
            /\ dirs \subseteq dirs'
            /\ Len(worktrees') >= Len(worktrees)
            /\ \A i \in 1..Len(worktrees) :
                   worktrees[i].path # tasks[t].path =>
                        worktrees'[i] = worktrees[i]
            /\ (tasks[t].pc = "w_create" /\ tasks'[t].pc = "w_error") =>
                   dirs' = dirs /\ worktrees' = worktrees
            /\ tasks[t].pc = "w_error" =>
                   /\ Len(worktrees') = Len(worktrees)
                   /\ \A w \in get_worktree(worktrees', tasks[t].path) :
                          w.status = "error"]_vars

\* a creation failed at the backend step: its row has status error, nothing
\* is on disk at its path, the primary row is ready and its directory is
\* there
C13_Witness ==
    /\ \A t \in Tasks : tasks[t].pc = "idle"
    /\ \E r \in repositories :
        /\ \E w \in SeqToSet(worktrees) :
            /\ w.path = JoinDir(r.local_path, MainDir)
            /\ w.status = "ready"
            /\ exists(dirs, w.path)
        /\ \E w \in SeqToSet(worktrees) :
            /\ w.repo_id = r.id
            /\ w.path # JoinDir(r.local_path, MainDir)
            /\ w.status = "error"
            /\ ~exists(dirs, w.path)

(***************************************************************************)
(* C15, C16: deleteRepository.                                             *)
(***************************************************************************)
\* C15: a deleteRepository whose removal of the directory fails returns the
\* error and does not run the store delete: the handler has changed no
\* repository row, no worktree row and no config, and the directory is
\* still there
C15_FailedRemovalKeepsTheStore ==
    [][\A t \in Tasks :
        /\ (tasks[t].pc = "idle" /\ tasks'[t].pc = "x_rmdir") =>
              /\ UNCHANGED <<store, dirs>>
              /\ get_repository(repositories, tasks'[t].repo_id) # {}
        /\ (/\ tasks[t].pc = "x_rmdir"
            /\ tasks'[t] # tasks[t]
            /\ exists(dirs', RootDir(tasks[t].local_path))) =>
              /\ tasks'[t].pc = "responded"
              /\ tasks'[t].resp = "internal_error"
              /\ UNCHANGED store]_vars

\* a deleteRepository has failed at the removal: its progress entry is
\* left, the row, its worktree rows, its config and its directory are there
C15_Witness ==
    /\ \A t \in Tasks : tasks[t].pc \in {"idle", "responded"}
    /\ \E t \in Tasks : tasks[t].resp = "internal_error"
    /\ \E r \in repositories :
        /\ RepoKey(r.id) \in DOMAIN progress
        /\ progress[RepoKey(r.id)] = "Deleting..."
        /\ list_worktrees(worktrees, r.id) # <<>>
        /\ get_worktree_config(worktree_config, r.id) # {}
        /\ exists(dirs, RootDir(r.local_path))

\* C16: when deleteRepository(id) returns ok, the store holds no repository
\* row, no worktree row and no config of id, and the local directory of the
\* repository no longer exists
C16_DeletedRepositoryIsGone ==
    [][\A t \in Tasks : \A id \in RepoIds :
        (\/ DeleteRepositoryMcp(t, id)
         \/ (tasks[t].pc = "x_db" /\ tasks[t].repo_id = id
                /\ tasks'[t].resp = "ok")) =>
            /\ get_repository(repositories', id) = {}
            /\ list_worktrees(worktrees', id) = <<>>
            /\ get_worktree_config(worktree_config', id) = {}
            /\ \A r \in get_repository(repositories, id) :
                    ~exists(dirs', RootDir(r.local_path))]_vars

(***************************************************************************)
(* createWorktree over every short branch name: one request at a time on   *)
(* a cloned repository, the handler up to the spawn of its pipeline.       *)
(***************************************************************************)
MaxLen == 3

\* '.', the separator, white space, a character the filter drops, an ASCII
\* letter and a letter outside ASCII
BranchAlphabet == {".", "/", " ", "@", "a", "é"}

BranchNames ==
    {Main} \cup UNION {[1..n -> BranchAlphabet] : n \in 0..MaxLen}

NextCreate ==
    \/ Return(1)
    \/ \E id \in RepoIds, b \in BranchNames, fe \in FrontEnds :
            CreateWorktreeRequest(1, id, b, fe)
    \/ CreateWorktreeInsert(1)

SpecCreate == InitBroadcast /\ [][NextCreate]_vars

\* C17: a createWorktree whose branch is empty after trimming, or only
\* dots, inserts no worktree row, whichever front end took it
C17_InvalidBranchInsertsNothing ==
    \A w \in SeqToSet(worktrees) : ~invalid_branch(trim(w.branch))

\* the directory a path denotes, as components from code_dir: a last
\* component "" or "." is the directory itself, ".." is its parent
location(path) ==
    IF path.leaf = <<".", ".">>
    THEN SubSeq(path.root, 1, Len(path.root) - 1)
    ELSE IF path.leaf \in {<<>>, <<".">>} THEN path.root
    ELSE Append(path.root, path.leaf)

is_prefix(p, q) == Len(p) <= Len(q) /\ SubSeq(q, 1, Len(p)) = p

\* the path passes the handler's check and denotes the repository root or
\* a location below it
inside(path, local_path) ==
    /\ starts_with(path, local_path)
    /\ is_prefix(local_path, location(path))

\* C18: the path of every worktree row that createWorktree inserted starts
\* with the root of its repository and denotes a location inside it
C18_WorktreePathInsideRepository ==
    \A w \in SeqToSet(worktrees) :
        \A r \in get_repository(repositories, w.repo_id) :
            inside(w.path, r.local_path)

\* [A-Za-z0-9._-]
SafeChars == AsciiAlnum \cup {".", "_", "-"}

has_dotdot(s) == \E i \in 1..(Len(s) - 1) : s[i] = "." /\ s[i + 1] = "."

\* C19: for every branch that is not empty and not only dots, the name
\* sanitize gives to the worktree directory is made of [A-Za-z0-9._-] and
\* has no "..", and the default branch is given ".main"
C19_SanitizedNameIsSafe ==
    /\ \A r \in repositories :
            sanitize_branch_name(r.default_branch, r.default_branch) = MainDir
    /\ \A t \in Tasks :
        (tasks[t].pc = "cw_insert" /\ ~invalid_branch(tasks[t].branch)) =>
            LET r == CHOOSE x \in repositories : x.id = tasks[t].repo_id
                name == sanitize_branch_name(tasks[t].branch, r.default_branch)
            IN  /\ tasks[t].path = JoinDir(r.local_path, name)
                /\ \A i \in 1..Len(name) : name[i] \in SafeChars
                /\ ~has_dotdot(name)

(***************************************************************************)
(* C20: the primary worktree of a cloned repository.                       *)
(***************************************************************************)
\* the rows of the primary worktree of repository r
primary_rows(r) ==
    {i \in 1..Len(worktrees) :
        /\ worktrees[i].repo_id = r.id
        /\ worktrees[i].path = JoinDir(r.local_path, MainDir)}

\* C20: a repository whose clone pipeline has completed (its config was
\* written by the last step) has, as long as its row exists, exactly one
\* worktree row at <local_path>/.main, and that row's branch is the
\* repository's default_branch
C20_OnePrimaryWorktree ==
    \A r \in repositories :
        get_worktree_config(worktree_config, r.id) # {} =>
            /\ Cardinality(primary_rows(r)) = 1
            /\ \A i \in primary_rows(r) : worktrees[i].branch = r.default_branch

(***************************************************************************)
(* C21: every worktree row in creating or deleting comes to an end.        *)
(***************************************************************************)
WorktreeStep(t) ==
    \/ WorktreeStepFetch(t)
    \/ WorktreeStepPull(t)
    \/ WorktreeStepInstallMain(t)
    \/ WorktreeStepCreate(t)
    \/ WorktreeStepShare(t)
    \/ WorktreeStepInstall(t)
    \/ WorktreeStepStatus(t)
    \/ WorktreeStepError(t)

\* the worktrees of a cloned repository; tokio runs the spawned creation
\* and deletion pipelines to their end, every backend call returns
SpecPipelines ==
    InitBroadcast /\ [][NextWorktrees]_vars
        /\ \A t \in Tasks : WF_vars(WorktreeStep(t)) /\ WF_vars(DeleteStep(t))

InFlight == {"creating", "deleting"}

\* the step that ends the creation or the deletion pipeline of task t
WorktreePipelineEnds(t) ==
    /\ tasks[t].pc \in {"w_status", "w_error", "d_db"}
    /\ tasks'[t].pc = "idle"

C22_FrontEndsAgree ==
    [][(/\ tasks[1].pc = "cw_insert"
        /\ tasks[1].fe = "mcp"
        /\ tasks'[1].pc = "w_fetch") =>
            LET http == create_worktree_handler(
                            tasks[1].repo_id, tasks[1].branch, "http")
            IN  /\ http.pc = "cw_insert"
                /\ http.path = tasks[1].path
                /\ http.branch = tasks[1].branch]_vars

(***************************************************************************)
(* C23: set_progress.  Every thread is a pipeline that sets and clears the *)
(* progress entry of its own repository; a stream client has subscribed    *)
(* and does not read, so its queue holds every snapshot that was sent.     *)
(***************************************************************************)
KeyOf(th) == RepoKey(th)

ProgressTexts == {Some("Fetching..."), Some("Pulling main..."), {}}

InitProgress ==
    /\ repositories = {ClonedRepository}
    /\ worktrees = <<ClonedWorktree>>
    /\ worktree_config = {DefaultConfig(1)}
    /\ next_id = 2
    /\ progress = <<>>
    /\ dirs = {RootDir(ClonedRepository.local_path),
               JoinDir(ClonedRepository.local_path, BareDir),
               JoinDir(ClonedRepository.local_path, GitFile),
               ClonedWorktree.path}
    /\ tasks = [t \in Tasks |-> IdleTask]
    /\ subs = [s \in Subs |-> [NoSub EXCEPT !.pc = "subscribed"]]
    /\ threads = [th \in Threads |-> IdleThread]
    /\ requests = 0
    /\ calls = 0

NextProgress ==
    \E th \in Threads :
        \/ \E message \in ProgressTexts :
                SetProgress(th, KeyOf(th), message, MaxCalls)
        \/ PushReadStore(th)
        \/ PushReadProgress(th)
        \/ PushSend(th)

SpecProgress == InitProgress /\ [][NextProgress]_vars

\* the entry of key in a progress map, as an Option
entry(prog, key) == IF key \in DOMAIN prog THEN {prog[key]} ELSE {}

\* C23: set_progress(key, Some(text)) makes the entry of key text and
\* set_progress(key, None) removes it, every other entry stays as it was;
\* every call is followed by exactly one send, and the snapshot sent holds
\* the entry the call left
C23_SetProgressWritesOneKeyAndPushesOnce ==
    /\ [][\A th \in Threads : \A message \in ProgressTexts :
            SetProgress(th, KeyOf(th), message, MaxCalls) =>
                /\ entry(progress', KeyOf(th)) = message
                /\ \A k \in (DOMAIN progress \cup DOMAIN progress') \ {KeyOf(th)} :
                        entry(progress', k) = entry(progress, k)]_vars
    /\ [][\A th \in Threads :
            PushSend(th) =>
                \A s \in Subs :
                    /\ Len(subs'[s].inbox) = Len(subs[s].inbox) + 1
                    /\ entry(subs'[s].inbox[Len(subs'[s].inbox)].progress,
                             KeyOf(th)) = entry(progress, KeyOf(th))]_vars
    /\ [](\A s \in Subs :
            Len(subs[s].inbox)
                + Cardinality({th \in Threads : threads[th].pc # "idle"})
              = calls)

\* a text was overwritten while the other pipeline's entry stayed, and all
\* four calls have been broadcast
C23_Witness ==
    /\ calls = MaxCalls
    /\ \A th \in Threads : threads[th].pc = "idle"
    /\ entry(progress, KeyOf(1)) = {"Pulling main..."}
    /\ entry(progress, KeyOf(2)) = {"Fetching..."}
    /\ \A s \in Subs : Len(subs[s].inbox) = MaxCalls

(***************************************************************************)
(* File sharing (git.rs share_files).  The files of the two worktrees are  *)
(* entries of dirs: at is the worktree directory, file the path relative   *)
(* to it, kind one of "dir", "file", "symlink"; a file has a content, a    *)
(* symlink a referent (to), a source entry the position read_dir yields it *)
(* at (pos).                                                               *)
(***************************************************************************)

\* str::starts_with, str::ends_with, str::contains on character sequences
str_starts_with(s, p) == Len(p) <= Len(s) /\ SubSeq(s, 1, Len(p)) = p
str_ends_with(s, p) ==
    Len(p) <= Len(s) /\ SubSeq(s, Len(s) - Len(p) + 1, Len(s)) = p
occurrences(s, p) ==
    {i \in 1..(Len(s) - Len(p) + 1) : SubSeq(s, i, i + Len(p) - 1) = p}
str_contains(s, p) == occurrences(s, p) # {}

\* str::split(sep): the parts between the leftmost non-overlapping matches
RECURSIVE split(_, _)
split(s, sep) ==
    IF ~str_contains(s, sep) THEN <<s>>
    ELSE LET i == CHOOSE j \in occurrences(s, sep) :
                      \A k \in occurrences(s, sep) : j <= k
         IN  <<SubSeq(s, 1, i - 1)>>
                 \o split(SubSeq(s, i + Len(sep), Len(s)), sep)

RECURSIVE trim_end_matches(_, _)
trim_end_matches(s, c) ==
    IF s # <<>> /\ s[Len(s)] = c
    THEN trim_end_matches(SubSeq(s, 1, Len(s) - 1), c) ELSE s

RECURSIVE trim_start_matches(_, _)
trim_start_matches(s, c) ==
    IF s # <<>> /\ s[1] = c THEN trim_start_matches(Tail(s), c) ELSE s

\* git.rs glob_match: one "**", else one "*", else equality
glob_match(pattern, path) ==
    LET deep == split(pattern, <<"*", "*">>)
        star == split(pattern, <<"*">>)
    IN  IF str_contains(pattern, <<"*", "*">>) /\ Len(deep) = 2
        THEN LET prefix == trim_end_matches(deep[1], "/")
                 suffix == trim_start_matches(deep[2], "/")
             IN  /\ ~(prefix # <<>> /\ ~str_starts_with(path, prefix))
                 /\ ~(suffix # <<>> /\ ~str_ends_with(path, suffix))
        ELSE IF str_contains(pattern, <<"*">>) /\ Len(star) = 2
        THEN str_starts_with(path, star[1]) /\ str_ends_with(path, star[2])
        ELSE pattern = path

\* do_create_worktree 3: split(','), trim, drop the empty parts
patterns_of(text) ==
    {trim(p) : p \in SeqToSet(split(text, <<",">>))} \ {<<>>}

NoLocation == [at |-> NoPath, file |-> <<>>]
Location(at, file) == [at |-> at, file |-> file]

DirEntry(at, file) ==
    [at |-> at, file |-> file, kind |-> "dir", content |-> "-",
     to |-> NoLocation, pos |-> 0]
FileEntry(at, file, content, pos) ==
    [at |-> at, file |-> file, kind |-> "file", content |-> content,
     to |-> NoLocation, pos |-> pos]
SymlinkEntry(at, file, to, pos) ==
    [at |-> at, file |-> file, kind |-> "symlink", content |-> "-",
     to |-> to, pos |-> pos]

\* symlink_metadata: the entry at a path, not followed
lookup(d, at, file) == {e \in d : e.at = at /\ e.file = file}

\* Path::exists follows symbolic links
RECURSIVE path_exists(_, _, _)
path_exists(d, at, file) ==
    /\ lookup(d, at, file) # {}
    /\ \A e \in lookup(d, at, file) :
          e.kind = "symlink" => path_exists(d, e.to.at, e.to.file)

\* Path::parent of a relative path
RECURSIVE parent(_)
parent(file) ==
    IF file = <<>> THEN <<>>
    ELSE IF file[Len(file)] = "/" THEN SubSeq(file, 1, Len(file) - 1)
    ELSE parent(SubSeq(file, 1, Len(file) - 1))

Done(d) == [ok |-> TRUE, d |-> d]
Failed(d) == [ok |-> FALSE, d |-> d]

\* fs::create_dir_all: fails on an entry that is not a directory
RECURSIVE create_dir_all(_, _, _)
create_dir_all(d, at, dir) ==
    IF lookup(d, at, dir) # {}
    THEN IF \A e \in lookup(d, at, dir) : e.kind = "dir"
         THEN Done(d) ELSE Failed(d)
    ELSE IF dir = <<>> THEN Done(d \cup {DirEntry(at, dir)})
    ELSE LET up == create_dir_all(d, at, parent(dir))
         IN  IF up.ok THEN Done(up.d \cup {DirEntry(at, dir)}) ELSE up

\* std::os::unix::fs::symlink: EEXIST on any entry at the link path
symlink(d, original, link) ==
    IF lookup(d, link.at, link.file) # {} THEN Failed(d)
    ELSE Done(d \cup {SymlinkEntry(link.at, link.file, original, 0)})

\* the regular file a path resolves to, if any
RECURSIVE resolve(_, _)
resolve(d, loc) ==
    IF lookup(d, loc.at, loc.file) = {} THEN loc
    ELSE LET e == CHOOSE x \in lookup(d, loc.at, loc.file) : TRUE
         IN  IF e.kind = "symlink" THEN resolve(d, e.to) ELSE loc

\* fs::copy: reads the source and creates or truncates what the target
\* path resolves to
copy(d, from, to) ==
    LET src == lookup(d, resolve(d, from).at, resolve(d, from).file)
        dst == resolve(d, to)
    IN  IF src = {} \/ \E e \in src : e.kind # "file" THEN Failed(d)
        ELSE IF \E e \in lookup(d, dst.at, dst.file) : e.kind # "file"
        THEN Failed(d)
        ELSE Done((d \ lookup(d, dst.at, dst.file))
                    \cup {FileEntry(dst.at, dst.file,
                                    (CHOOSE e \in src : TRUE).content, 0)})

\* collect_files: the files below source in read_dir order, without the
\* paths that contain ".git"
RECURSIVE in_order(_)
in_order(es) ==
    IF es = {} THEN <<>>
    ELSE LET first == CHOOSE e \in es : \A x \in es : e.pos <= x.pos
         IN  <<first.file>> \o in_order(es \ {first})

collect_files(d, source) ==
    IF ~path_exists(d, source, <<>>) THEN <<>>
    ELSE in_order({e \in d : /\ e.at = source
                             /\ e.kind # "dir"
                             /\ ~str_contains(e.file, GitFile)})

\* target_full.exists()
target_full_exists_ignored(d, target, file) == FALSE

target_full_exists(d, target, file) == path_exists(d, target, file)

\* the loop of share_files over the collected files; an error returns
RECURSIVE share_each(_, _, _, _, _, _)
share_each(files, d, source, target, symlink_patterns, copy_patterns) ==
    IF files = <<>> THEN Done(d)
    ELSE
    LET file == Head(files)
        should_symlink == \E p \in symlink_patterns : glob_match(p, file)
        should_copy == \E p \in copy_patterns : glob_match(p, file)
        made == create_dir_all(d, target, parent(file))
        shared == IF should_symlink
                  THEN symlink(made.d, Location(source, file),
                               Location(target, file))
                  ELSE copy(made.d, Location(source, file),
                            Location(target, file))
    IN  IF ~should_symlink /\ ~should_copy
        THEN share_each(Tail(files), d, source, target,
                        symlink_patterns, copy_patterns)
        ELSE IF target_full_exists(d, target, file)
        THEN share_each(Tail(files), d, source, target,
                        symlink_patterns, copy_patterns)
        ELSE IF ~made.ok THEN made
        ELSE IF ~shared.ok THEN shared
        ELSE share_each(Tail(files), shared.d, source, target,
                        symlink_patterns, copy_patterns)

share_files(d, source, target, symlink_patterns, copy_patterns) ==
    share_each(collect_files(d, source), d, source, target,
               symlink_patterns, copy_patterns)

Env == <<".", "e", "n", "v">>
EnvLocal == <<".", "e", "n", "v", ".", "l">>
ClaudeDir == <<".", "c">>
ClaudeFile == <<".", "c", "/", "a">>
GitIgnore == <<".", "g", "i", "t", "i">>
SourceFiles == {Env, EnvLocal, ClaudeFile, GitIgnore}
TargetFiles == {Env, EnvLocal, ClaudeDir}

EnvStar == <<".", "e", "n", "v", ".", "*">>
ClaudeGlob == <<".", "c", "/", "*", "*">>
\* routes.rs 339: ".env,.env.*,.claude/**"
DefaultPatterns == Env \o <<",">> \o EnvStar \o <<",">> \o ClaudeGlob
PatternTexts == {<<>>, DefaultPatterns, <<"*">>, <<" ", "*", "*", ",">>,
                 EnvStar}

SourceDir == ClonedWorktree.path
TargetDir ==
    JoinDir(ClonedRepository.local_path, sanitize_branch_name(Feature, Main))
Elsewhere == JoinDir(ClonedRepository.local_path, <<"o">>)

Positions == 1..Cardinality(SourceFiles)

\* a source tree: every file of SourceFiles, regular or a dangling link,
\* in some read_dir order
SourceTrees ==
    {{DirEntry(SourceDir, <<>>), DirEntry(SourceDir, ClaudeDir)}
        \cup {IF f \in dangling
              THEN SymlinkEntry(SourceDir, f, Location(Elsewhere, f), pos[f])
              ELSE FileEntry(SourceDir, f, "source", pos[f]) :
              f \in SourceFiles} :
     pos \in {p \in [SourceFiles -> Positions] :
                 \A f, g \in SourceFiles : p[f] = p[g] => f = g},
     dangling \in {{}} \cup {{f} : f \in SourceFiles}}

\* a target tree: the checked-out worktree, where a shared path may be
\* taken by a tracked file or by a dangling link
TargetTrees ==
    {{DirEntry(TargetDir, <<>>)}
        \cup {FileEntry(TargetDir, f, "target", 0) :
              f \in {g \in TargetFiles : kind[g] = "file"}}
        \cup {SymlinkEntry(TargetDir, f, Location(Elsewhere, f), 0) :
              f \in {g \in TargetFiles : kind[g] = "symlink"}} :
     kind \in [TargetFiles -> {"absent", "file", "symlink"}]}

ShareConfig(symlink_text, copy_text) ==
    [repo_id |-> 1, symlink_patterns |-> symlink_text,
     copy_patterns |-> copy_text, upstream_remote |-> "origin"]

InitShare ==
    /\ repositories = {ClonedRepository}
    /\ worktrees = <<ClonedWorktree>>
    /\ \E s \in PatternTexts, c \in PatternTexts :
          worktree_config = {ShareConfig(s, c)}
    /\ next_id = 2
    /\ progress = <<>>
    /\ \E source \in SourceTrees, target \in TargetTrees :
          dirs = source \cup target
    /\ tasks = [t \in Tasks |-> IdleTask]
    /\ subs = [s \in Subs |-> NoSub]
    /\ threads = [th \in Threads |-> IdleThread]
    /\ requests = 0
    /\ calls = 0

\* one invocation of share_files by the repository's patterns; calls
\* counts the invocations
ShareFiles(limit) ==
    /\ calls < limit
    /\ calls' = calls + 1
    /\ \E config \in worktree_config :
          dirs' = share_files(dirs, SourceDir, TargetDir,
                              patterns_of(config.symlink_patterns),
                              patterns_of(config.copy_patterns)).d
    /\ UNCHANGED <<store, progress, tasks, subs, threads, requests>>

NextShare == ShareFiles(MaxCalls)

SpecShare == InitShare /\ [][NextShare]_vars

tree(d, at) == {e \in d : e.at = at}

\* C24: a second invocation of share_files with the same source tree, target
\* and patterns leaves the target tree as the first left it, and no
\* invocation changes or removes an entry that exists at a target path
C24_SharingIsIdempotentAndKeepsFiles ==
    [][/\ tree(dirs, TargetDir) \subseteq tree(dirs', TargetDir)
       /\ tree(dirs', SourceDir) = tree(dirs, SourceDir)
       /\ calls >= 1 => tree(dirs', TargetDir) = tree(dirs, TargetDir)]_vars

\* the second invocation has run on a target where the first one linked a
\* file, copied a file and skipped a file that was there
C24_Witness ==
    /\ calls = 2
    /\ \E e \in tree(dirs, TargetDir) : e.kind = "symlink" /\ e.to.at = SourceDir
    /\ \E e \in tree(dirs, TargetDir) : e.kind = "file" /\ e.content = "source"
    /\ \E e \in tree(dirs, TargetDir) : e.kind = "file" /\ e.content = "target"

(***************************************************************************)
(* What a connected client is sent.  One request at a time is served and   *)
(* its pipeline run, with a receiver that was subscribed before and reads  *)
(* nothing, so that its queue holds the snapshots in the order sent.       *)
(***************************************************************************)
Sequential == {t \in Tasks : t = 1}

\* a repository other than the one InitProgress holds
OtherUrls == {UrlGitlab}

NextPublish ==
    \E t \in Sequential :
        \/ \E url \in OtherUrls, fe \in FrontEnds : CloneRequest(t, url, fe)
        \/ CloneInsert(t)
        \/ CloneStepPrepare(t)
        \/ CloneStepBare(t)
        \/ CloneStepConfig(t)
        \/ CloneStepFetch(t)
        \/ CloneStepDetect(t)
        \/ CloneStepInsertWorktree(t)
        \/ CloneStepCreateWorktree(t)
        \/ CloneStepInstall(t)
        \/ CloneStepStatus(t)
        \/ CloneStepUpsert(t)
        \/ CloneStepRollback(t)
        \/ Return(t)
        \/ \E id \in RepoIds, b \in BranchInputs, fe \in FrontEnds :
                CreateWorktreeRequest(t, id, b, fe)
        \/ CreateWorktreeInsert(t)
        \/ WorktreeStepFetch(t)
        \/ WorktreeStepPull(t)
        \/ WorktreeStepInstallMain(t)
        \/ WorktreeStepCreate(t)
        \/ WorktreeStepShare(t)
        \/ WorktreeStepInstall(t)
        \/ WorktreeStepStatus(t)
        \/ WorktreeStepError(t)
        \/ \E path \in PathInputs, fe \in FrontEnds :
                DeleteWorktreeRequest(t, path, fe)
        \/ DeleteStepRemove(t)
        \/ DeleteStepRmdir(t)
        \/ DeleteStepDb(t)
        \/ \E id \in RepoIds : DeleteRepositoryRequest(t, id)
        \/ DeleteRepositoryRmdir(t)
        \/ DeleteRepositoryDb(t)
        \/ \E id \in RepoIds : DeleteRepositoryMcp(t, id)
        \/ \E id \in RepoIds : RefreshRequest(t, id)
        \/ RefreshStepFetch(t)
        \/ RefreshStepList(t)
        \/ RefreshStepWorktree(t)
        \/ RefreshStepFinish(t)

SpecPublish == InitProgress /\ [][NextPublish]_vars

\* the pipeline positions at which a store call of the pipeline has not yet
\* been followed by a push
Unpublished == {"c_upsert", "r_loop"}

\* the step ends with a send of the state it leaves
Published ==
    \A s \in Subs :
        /\ subs'[s] # subs[s]
        /\ subs'[s].inbox[Len(subs'[s].inbox)]
               = get_full_state(repositories', worktrees', progress')

\* C25: a step of a handler or pipeline that changes the store, or that
\* starts where a store change is not yet broadcast, either ends with a
\* broadcast of the state it leaves or leaves the pipeline running at a
\* position that still owes the broadcast; no pipeline ends owing one
C25_MutationsArePublished ==
    [][\A t \in Tasks :
        (/\ tasks'[t] # tasks[t]
         /\ store' # store \/ tasks[t].pc \in Unpublished)
            => /\ Published \/ tasks'[t].pc \in Unpublished
               /\ tasks'[t].pc \notin Unpublished
                    => Published]_vars

\* a clone has ended: its last broadcast holds the Ready primary worktree
\* that its status step wrote without a broadcast of its own
C25_Witness ==
    /\ \A t \in Tasks : tasks[t].pc = "idle"
    /\ \E i \in 1..Len(worktrees) :
          worktrees[i].repo_id = 2 /\ worktrees[i].status = "ready"
    /\ \A s \in Subs :
          /\ subs[s].inbox # <<>>
          /\ subs[s].inbox[Len(subs[s].inbox)]
                = get_full_state(repositories, worktrees, progress)

\* the steps whose failure is logged, and the step each is followed by
SoftNext ==
    [c_install |-> "c_status", w_fetch |-> "w_pull",
     w_pull |-> "w_install_main", w_install_main |-> "w_create",
     w_install |-> "w_status"]

\* C26: an install of a clone or of a worktree creation, and the fetch, pull
\* and install of the primary-worktree sync, go on to the same next step
\* with the store and the directories untouched whether they fail or not;
\* the status step that follows writes Ready and the pipeline ends with its
\* progress entries cleared
C26_SoftFailuresKeepTheOutcome ==
    [][\A t \in Tasks :
        /\ (tasks[t].pc \in DOMAIN SoftNext /\ tasks'[t] # tasks[t])
              => /\ tasks'[t].pc = SoftNext[tasks[t].pc]
                 /\ UNCHANGED <<store, dirs>>
        /\ (tasks[t].pc = "c_status" /\ tasks'[t].pc = "c_upsert")
              => \A w \in get_worktree(worktrees', MainPath(t)) :
                    w.status = "ready"
        /\ (tasks[t].pc = "c_upsert" /\ tasks'[t].pc = "idle")
              => RepoKey(tasks[t].repo_id) \notin DOMAIN progress'
        /\ (tasks[t].pc = "w_status" /\ tasks'[t].pc = "idle")
              => /\ \A w \in get_worktree(worktrees', tasks[t].path) :
                        w.status = "ready"
                 /\ PathKey(tasks[t].path) \notin DOMAIN progress'
                 /\ RepoKey(tasks[t].repo_id) \notin DOMAIN progress']_vars

\* the install of a clone has failed and the pipeline is at its status step
C26_Witness ==
    \E t \in Tasks :
        /\ tasks[t].pc = "c_status"
        /\ RepoKey(tasks[t].repo_id) \in DOMAIN progress
        /\ progress[RepoKey(tasks[t].repo_id)] = "Warning: pm install failed"

\* C27: a createWorktree request that finds a worktree row at the path it
\* computed is answered with an error: the table of worktrees is left as it
\* is and no creation pipeline is started, whether the row is found by the
\* handler's lookup or by the insert
C27_ExistingPathIsRejected ==
    [][\A t \in Tasks :
        /\ \A id \in RepoIds, b \in BranchInputs :
              (/\ CreateWorktreeRequest(t, id, b, "http")
               /\ tasks'[t].path # NoPath
               /\ get_worktree(worktrees, tasks'[t].path) # {})
                  => /\ tasks'[t].pc = "responded"
                     /\ tasks'[t].resp = "bad_request"
                     /\ worktrees' = worktrees
        /\ (/\ tasks[t].pc = "cw_insert"
            /\ tasks'[t] # tasks[t]
            /\ get_worktree(worktrees, tasks[t].path) # {})
               => /\ tasks'[t].pc = "responded"
                  /\ worktrees' = worktrees
                  /\ UNCHANGED <<progress, dirs>>]_vars

\* an HTTP request for the branch of an existing worktree was rejected, and
\* a handler that had passed the lookup is about to insert at a taken path
C27_Witness ==
    /\ tasks[1].pc = "responded"
    /\ tasks[1].resp = "bad_request"
    /\ get_worktree(worktrees, tasks[1].path) # {}
    /\ tasks[2].pc = "cw_insert"
    /\ get_worktree(worktrees, tasks[2].path) # {}

\* the steps of a creation pipeline that work on the primary worktree
PrimarySteps == {"w_fetch", "w_pull", "w_install_main", "w_share"}

\* C28: while a creation pipeline is at its primary-sync or file-sharing
\* steps, the primary worktree of its repository has a row with status ready
C28_PipelineFindsReadyPrimary ==
    \A t \in Tasks :
        tasks[t].pc \in PrimarySteps
            => \E w \in get_worktree(worktrees,
                                     JoinDir(tasks[t].local_path, MainDir)) :
                  w.status = "ready"

(***************************************************************************)
(* The request path with a store that can fail: the handlers of clone and  *)
(* createWorktree on a cloned repository, each with an existence lookup    *)
(* that returns a row, no row or an error.                                 *)
(***************************************************************************)
NextStoreErrors ==
    \E t \in Tasks :
        \/ Return(t)
        \/ \E url \in Urls, fe \in FrontEnds : CloneRequest(t, url, fe)
        \/ \E url \in Urls, fe \in FrontEnds :
                CloneRequestStoreError(t, url, fe)
        \/ CloneInsert(t)
        \/ \E id \in RepoIds, b \in BranchInputs, fe \in FrontEnds :
                CreateWorktreeRequest(t, id, b, fe)
        \/ \E id \in RepoIds, b \in BranchInputs :
                CreateWorktreeRequestStoreError(t, id, b)
        \/ CreateWorktreeInsert(t)

SpecStoreErrors == InitBroadcast /\ [][NextStoreErrors]_vars

\* C29: a handler of clone or createWorktree whose existence lookup returned
\* a store error goes nowhere but to an error answer: it inserts no row and
\* starts no pipeline
C29_FailedLookupIsSurfaced ==
    [][\A t \in Tasks :
        (tasks[t].resp = "lookup_failed" /\ tasks'[t] # tasks[t])
            => /\ tasks'[t].pc = "responded"
               /\ UNCHANGED store]_vars

(***************************************************************************)
(* The locks.  Database.conn is a std::sync::Mutex, StateManager.progress  *)
(* a std::sync::RwLock; a thread's pc is the rest of the call it is in,    *)
(* an instruction per lock acquisition, guarded section and send, and      *)
(* holds the guards it has not dropped.  A guard taken inside a Database   *)
(* method or as a temporary of a statement is dropped by the instruction   *)
(* that uses it.                                                           *)
(***************************************************************************)
\* get_full_state: list_repositories, list_worktrees of the repository, the
\* clone of the progress map
get_full_state_steps ==
    <<"conn.lock", "list_repositories", "conn.lock", "list_worktrees",
      "progress.read", "clone">>

\* push_state: get_full_state, tx.send
push_state_steps == get_full_state_steps \o <<"send">>

\* a set_progress that pushes inside the block of the write guard
set_progress_steps_guarded ==
    <<"progress.write", "insert">> \o push_state_steps \o <<"drop">>

\* set_progress: the block of the write guard, then schedule_push
set_progress_steps ==
    <<"progress.write", "insert", "drop">> \o push_state_steps

\* a Database method followed by on_db_change
store_call_steps == <<"conn.lock", "update">> \o push_state_steps

LockThread ==
    [pc |-> <<>>, holds |-> {}, key |-> RepoKey(0), message |-> {},
     status |-> "-", repositories |-> <<>>, state |-> NoSnapshot,
     instants |-> {}]

InitLocks ==
    /\ repositories = {ClonedRepository}
    /\ worktrees = <<ClonedWorktree>>
    /\ worktree_config = {DefaultConfig(1)}
    /\ next_id = 2
    /\ progress = <<>>
    /\ dirs = {RootDir(ClonedRepository.local_path),
               JoinDir(ClonedRepository.local_path, BareDir),
               JoinDir(ClonedRepository.local_path, GitFile),
               ClonedWorktree.path}
    /\ tasks = [t \in Tasks |-> IdleTask]
    /\ subs = [s \in Subs |-> [NoSub EXCEPT !.pc = "subscribed"]]
    /\ threads = [th \in Threads |-> LockThread]
    /\ requests = 0
    /\ calls = 0

\* the instruction a thread is at
at(th, instr) == threads[th].pc # <<>> /\ Head(threads[th].pc) = instr

\* whether the lock an acquisition asks for is free: a Mutex has one
\* holder, a RwLock one writer or readers
free(instr) ==
    CASE instr = "conn.lock" -> \A o \in Threads : "conn" \notin threads[o].holds
      [] instr = "progress.write" ->
            \A o \in Threads : threads[o].holds \cap {"write", "read"} = {}
      [] instr = "progress.read" ->
            \A o \in Threads : "write" \notin threads[o].holds
      [] OTHER -> TRUE

\* history, not program state: instants holds the combined Store and
\* progress states that were true at some instant since the thread entered
\* the get_full_state it is in, or that it was last in
observed(ths) ==
    LET now == get_full_state(repositories', worktrees', progress')
    IN  [th \in Threads |->
            IF /\ ths[th].pc \in {get_full_state_steps, push_state_steps}
               /\ ths[th].pc # threads[th].pc
            THEN [ths[th] EXCEPT !.instants = {now}]
            ELSE IF "clone" \in SeqToSet(ths[th].pc)
            THEN [ths[th] EXCEPT !.instants = @ \cup {now}]
            ELSE ths[th]]

Advance(th, holds) ==
    threads' = observed([threads EXCEPT ![th].pc = Tail(threads[th].pc),
                                        ![th].holds = holds])

\* a thread at the start of a call
entered(steps, key, message, status) ==
    [LockThread EXCEPT !.pc = steps, !.key = key, !.message = message,
                       !.status = status]

\* a handler or pipeline calls set_progress
CallSetProgress(th, key, message, limit) ==
    /\ threads[th].pc = <<>>
    /\ calls < limit
    /\ calls' = calls + 1
    /\ UNCHANGED <<store, progress, dirs, tasks, subs, requests>>
    /\ threads' = observed([threads EXCEPT ![th] =
                      entered(set_progress_steps, key, message, "-")])

\* a pipeline calls update_worktree_status and on_db_change
CallStore(th, status, limit) ==
    /\ threads[th].pc = <<>>
    /\ calls < limit
    /\ calls' = calls + 1
    /\ UNCHANGED <<store, progress, dirs, tasks, subs, requests>>
    /\ threads' = observed([threads EXCEPT ![th] =
                      entered(store_call_steps, RepoKey(0), {}, status)])

\* sse_handler and get_state call get_full_state
CallGetFullState(th, limit) ==
    /\ threads[th].pc = <<>>
    /\ calls < limit
    /\ calls' = calls + 1
    /\ UNCHANGED <<store, progress, dirs, tasks, subs, requests>>
    /\ threads' = observed([threads EXCEPT ![th] =
                      entered(get_full_state_steps, RepoKey(0), {}, "-")])

\* self.conn.lock().unwrap()
ConnLock(th) ==
    /\ at(th, "conn.lock")
    /\ free("conn.lock")
    /\ UNCHANGED <<store, progress, dirs, tasks, subs, requests, calls>>
    /\ Advance(th, threads[th].holds \cup {"conn"})

\* Database::update_worktree_status; the guard drops at the return
Update(th) ==
    /\ at(th, "update")
    /\ worktrees' = update_worktree_status(
                        worktrees, ClonedWorktree.path, threads[th].status,
                        IF threads[th].status = "ready" THEN "c1" ELSE NoHead)
    /\ UNCHANGED <<repositories, worktree_config, next_id, progress, dirs,
                   tasks, subs, requests, calls>>
    /\ Advance(th, threads[th].holds \ {"conn"})

\* Database::list_repositories; the guard drops at the return
ListRepositories(th) ==
    /\ at(th, "list_repositories")
    /\ UNCHANGED <<store, progress, dirs, tasks, subs, requests, calls>>
    /\ threads' = observed([threads EXCEPT
            ![th].pc = Tail(threads[th].pc),
            ![th].holds = threads[th].holds \ {"conn"},
            ![th].repositories =
                [i \in 1..Len(list_repositories(repositories)) |->
                    [repo |-> list_repositories(repositories)[i],
                     worktrees |-> <<>>]]])

\* Database::list_worktrees for the repository listed; the guard drops at
\* the return
ListWorktrees(th) ==
    /\ at(th, "list_worktrees")
    /\ UNCHANGED <<store, progress, dirs, tasks, subs, requests, calls>>
    /\ threads' = observed([threads EXCEPT
            ![th].pc = Tail(threads[th].pc),
            ![th].holds = threads[th].holds \ {"conn"},
            ![th].repositories =
                [i \in 1..Len(threads[th].repositories) |->
                    [threads[th].repositories[i] EXCEPT !.worktrees =
                        list_worktrees(worktrees,
                                       threads[th].repositories[i].repo.id)]]])

\* self.progress.write().unwrap()
ProgressWrite(th) ==
    /\ at(th, "progress.write")
    /\ free("progress.write")
    /\ UNCHANGED <<store, progress, dirs, tasks, subs, requests, calls>>
    /\ Advance(th, threads[th].holds \cup {"write"})

\* progress.insert or progress.remove under the write guard
Insert(th) ==
    /\ at(th, "insert")
    /\ progress' = set_progress(progress, threads[th].key, threads[th].message)
    /\ UNCHANGED <<store, dirs, tasks, subs, requests, calls>>
    /\ Advance(th, threads[th].holds)

\* the end of the block: the write guard drops
Drop(th) ==
    /\ at(th, "drop")
    /\ UNCHANGED <<store, progress, dirs, tasks, subs, requests, calls>>
    /\ Advance(th, threads[th].holds \ {"write"})

\* self.progress.read().unwrap()
ProgressRead(th) ==
    /\ at(th, "progress.read")
    /\ free("progress.read")
    /\ UNCHANGED <<store, progress, dirs, tasks, subs, requests, calls>>
    /\ Advance(th, threads[th].holds \cup {"read"})

\* .clone(); the temporary read guard drops at the end of the statement
Clone(th) ==
    /\ at(th, "clone")
    /\ UNCHANGED <<store, progress, dirs, tasks, subs, requests, calls>>
    /\ threads' = observed([threads EXCEPT
            ![th].pc = Tail(threads[th].pc),
            ![th].holds = threads[th].holds \ {"read"},
            ![th].state = [repositories |-> threads[th].repositories,
                           progress |-> progress]])

\* let _ = self.tx.send(state): never waits for a receiver
Send(th) ==
    /\ at(th, "send")
    /\ subs' = send(subs, threads[th].state)
    /\ UNCHANGED <<store, progress, dirs, tasks, requests, calls>>
    /\ Advance(th, threads[th].holds)

NextLocks ==
    \E th \in Threads :
        \/ \E message \in ProgressMessages :
                CallSetProgress(th, RepoKey(1), message, MaxCalls)
        \/ \E status \in {"ready", "error"} : CallStore(th, status, MaxCalls)
        \/ CallGetFullState(th, MaxCalls)
        \/ ConnLock(th)
        \/ Update(th)
        \/ ListRepositories(th)
        \/ ListWorktrees(th)
        \/ ProgressWrite(th)
        \/ Insert(th)
        \/ Drop(th)
        \/ ProgressRead(th)
        \/ Clone(th)
        \/ Send(th)

SpecLocks == InitLocks /\ [][NextLocks]_vars

\* a thread inside a call can take its next step
can_step(th) == threads[th].pc # <<>> /\ free(Head(threads[th].pc))

\* C30: no thread asks for the Store mutex while it holds a guard of the
\* progress lock, nor for the progress lock while it holds the Store mutex;
\* a thread at a send can always step; and whenever a thread is inside a
\* call, some thread inside a call can step
C30_NoDeadlock ==
    /\ \A th \in Threads :
          /\ at(th, "conn.lock") => threads[th].holds = {}
          /\ (at(th, "progress.write") \/ at(th, "progress.read"))
                => threads[th].holds = {}
          /\ at(th, "send") => can_step(th)
    /\ (\E th \in Threads : threads[th].pc # <<>>)
          => \E th \in Threads : can_step(th)

\* one thread waits for the Store mutex that another holds inside
\* get_full_state, with the receiver's queue not empty
C30_Witness ==
    /\ at(1, "conn.lock") /\ ~can_step(1)
    /\ "conn" \in threads[2].holds
    /\ at(2, "list_worktrees")
    /\ \E s \in Subs : subs[s].inbox # <<>>

\* a thread that has left get_full_state with its snapshot
returned(th) ==
    /\ threads[th].instants # {}
    /\ "clone" \notin SeqToSet(threads[th].pc)

\* C32: the snapshot a get_full_state returned equals the combined Store
\* and progress state that was true at some one instant during the call
C32_SnapshotIsOneInstant ==
    \A th \in Threads :
        returned(th) => threads[th].state \in threads[th].instants

(***************************************************************************)
(* GitOps::create_worktree (git.rs 128-198).  The bare store is the set of *)
(* its entries: local branch refs, remote tracking refs, the upstream a    *)
(* branch is configured with, and the worktrees it has registered.  A git  *)
(* command either fails and changes nothing or does what it was asked.     *)
(***************************************************************************)
HeadRef(branch) == [kind |-> "refs/heads", remote |-> "-", branch |-> branch]

RemoteRef(remote, branch) ==
    [kind |-> "refs/remotes", remote |-> remote, branch |-> branch]

UpstreamOf(branch, remote) ==
    [kind |-> "upstream", remote |-> remote, branch |-> branch]

Checkout(branch) == [kind |-> "worktree", remote |-> "-", branch |-> branch]

\* git rev-parse --verify <ref>: Ok(true) exactly for a ref of the store
git_rev_parse(store_entries, ref) == ref \in store_entries

\* the remote tracking ref is probed first
worktree_add_remote_first(local_exists, remote_exists) ==
    IF remote_exists THEN "add --track -b"
    ELSE IF local_exists THEN "add"
    ELSE "add -b"

\* the `git worktree add` form the two probes select
worktree_add(local_exists, remote_exists) ==
    IF local_exists THEN "add"
    ELSE IF remote_exists THEN "add --track -b"
    ELSE "add -b"

\* the store and the result after create_worktree(branch, remote), given
\* the outcome of the probes, of `git worktree add` and of
\* `git branch --set-upstream-to`
git_create_worktree(entries, branch, remote, probe, add, set_upstream) ==
    LET local_exists == git_rev_parse(entries, HeadRef(branch))
        remote_exists == git_rev_parse(entries, RemoteRef(remote, branch))
        form == worktree_add(local_exists, remote_exists)
    IN  IF probe = "failed" \/ add = "failed"
        THEN [entries |-> entries, result |-> "failed"]
        ELSE IF form = "add"
        THEN [entries |->
                entries \cup {Checkout(branch)}
                    \cup (IF remote_exists /\ set_upstream = "ok"
                          THEN {UpstreamOf(branch, remote)} ELSE {}),
              result |-> "ok"]
        ELSE IF form = "add --track -b"
        THEN [entries |-> entries \cup {HeadRef(branch), Checkout(branch),
                                        UpstreamOf(branch, remote)},
              result |-> "ok"]
        ELSE [entries |-> entries \cup {HeadRef(branch), Checkout(branch)},
              result |-> "ok"]

GitBranches == {Main, Feature}

Remote == "origin"

\* a fetched bare store: any of the branches exists locally, remotely, both
\* or not at all; no worktree is registered
InitGit ==
    /\ repositories = {ClonedRepository}
    /\ worktrees = <<>>
    /\ worktree_config = {DefaultConfig(1)}
    /\ next_id = 2
    /\ progress = <<>>
    /\ \E heads \in SUBSET GitBranches, remotes \in SUBSET GitBranches :
          dirs = {HeadRef(b) : b \in heads}
                    \cup {RemoteRef(Remote, b) : b \in remotes}
    /\ tasks = [t \in Tasks |-> IdleTask]
    /\ subs = [s \in Subs |-> NoSub]
    /\ threads = [th \in Threads |-> IdleThread]
    /\ requests = 0
    /\ calls = 0

\* one call of create_worktree for a branch that has no worktree yet
GitCreateWorktree(branch, probe, add, set_upstream, limit) ==
    /\ calls < limit
    /\ calls' = calls + 1
    /\ Checkout(branch) \notin dirs
    /\ LET r == git_create_worktree(dirs, branch, Remote, probe, add,
                                    set_upstream)
       IN  /\ dirs' = r.entries
           /\ tasks' = [tasks EXCEPT ![1].branch = branch,
                                     ![1].resp = r.result]
    /\ UNCHANGED <<store, progress, subs, threads, requests>>

NextGit ==
    \E branch \in GitBranches, probe \in Outcomes, add \in Outcomes,
       set_upstream \in Outcomes :
        GitCreateWorktree(branch, probe, add, set_upstream, MaxCalls)

SpecGit == InitGit /\ [][NextGit]_vars

\* C31: a create_worktree whose probes and `git worktree add` succeed
\* registers the worktree whatever the upstream command did, and: on an
\* existing local branch it creates no ref and sets the upstream only if the
\* remote ref exists and the upstream command succeeded; else on an existing remote ref it creates the local
\* branch with that upstream; else it creates the branch with no upstream
C31_CaseFollowsTheProbes ==
    [][\A branch \in GitBranches, set_upstream \in Outcomes :
        GitCreateWorktree(branch, "ok", "ok", set_upstream, MaxCalls + 1)
            => /\ Checkout(branch) \in dirs'
               /\ tasks'[1].resp = "ok"
               /\ HeadRef(branch) \in dirs
                    => /\ dirs' \ dirs \subseteq
                            {Checkout(branch), UpstreamOf(branch, Remote)}
                       /\ UpstreamOf(branch, Remote) \in dirs'
                            => /\ RemoteRef(Remote, branch) \in dirs
                               /\ set_upstream = "ok"
               /\ (HeadRef(branch) \notin dirs
                        /\ RemoteRef(Remote, branch) \in dirs)
                    => dirs' \ dirs = {HeadRef(branch), Checkout(branch),
                                       UpstreamOf(branch, Remote)}
               /\ (HeadRef(branch) \notin dirs
                        /\ RemoteRef(Remote, branch) \notin dirs)
                    => dirs' \ dirs = {HeadRef(branch), Checkout(branch)}]_vars

\* one branch that existed locally and remotely was checked out although
\* its upstream could not be set, and the other, which existed on the
\* remote only, was created tracking it
C31_Witness ==
    /\ tasks[1].resp = "ok"
    /\ {HeadRef(Main), RemoteRef(Remote, Main), Checkout(Main)}
            \subseteq dirs
    /\ UpstreamOf(Main, Remote) \notin dirs
    /\ {RemoteRef(Remote, Feature), Checkout(Feature),
        UpstreamOf(Feature, Remote)} \subseteq dirs

C34_PipelineRemovesOnlyItsOwn ==
    [][\A t \in Tasks, o \in Tasks :
        (/\ tasks[t].pc \in {"c_prepare", "c_rollback"}
         /\ tasks'[t] # tasks[t]
         /\ tasks[o].pc \in Populating
         /\ tasks[o].repo_id # tasks[t].repo_id)
            => {e \in dirs : e.root = tasks[o].local_path} \subseteq dirs']_vars

\* C35: the row an HTTP createWorktree inserts for a branch its validation
\* accepted has a path with a non-empty directory name, never the root of
\* the repository
C35_WorktreePathIsNotTheRoot ==
    [][\A t \in Tasks :
        (/\ tasks[t].pc = "cw_insert"
         /\ tasks[t].fe = "http"
         /\ ~invalid_branch(tasks[t].branch))
            => \A w \in SeqToSet(worktrees') \ SeqToSet(worktrees) :
                  /\ w.path.leaf # <<>>
                  /\ w.path # RootDir(tasks[t].local_path)]_vars

(***************************************************************************)
(* createWorktree and deleteWorktree on a cloned repository, for branches  *)
(* whose names resemble the entries a repository directory reserves or the *)
(* directory name of another branch.                                       *)
(***************************************************************************)
Reserved == {MainDir, BareDir, GitFile}

\* "f--x", the directory name of the branch "f/x"
FeatureDashed == <<"f", "-", "-", "x">>

ReservedBranches ==
    {Main, Feature, FeatureDashed, MainDir, BareDir, GitFile,
     <<"@">> \o BareDir}

ReservedPaths ==
    {JoinDir(ClonedRepository.local_path,
             sanitize_branch_name(b, ClonedRepository.default_branch)) :
        b \in ReservedBranches}

NextReserved ==
    \E t \in Sequential :
        \/ Return(t)
        \/ \E b \in ReservedBranches, fe \in FrontEnds :
                CreateWorktreeRequest(t, 1, b, fe)
        \/ CreateWorktreeInsert(t)
        \/ WorktreeStepFetch(t)
        \/ WorktreeStepPull(t)
        \/ WorktreeStepInstallMain(t)
        \/ WorktreeStepCreate(t)
        \/ WorktreeStepShare(t)
        \/ WorktreeStepInstall(t)
        \/ WorktreeStepStatus(t)
        \/ WorktreeStepError(t)
        \/ \E path \in ReservedPaths, fe \in FrontEnds :
                DeleteWorktreeRequest(t, path, fe)
        \/ DeleteStepRemove(t)
        \/ DeleteStepRmdir(t)
        \/ DeleteStepDb(t)

SpecReserved == InitBroadcast /\ [][NextReserved]_vars

\* C36: the row an HTTP createWorktree inserts for an accepted branch other
\* than the repository's default branch has a directory name that is none
\* of .main, .bare and .git
C36_NameIsNotReserved ==
    [][\A t \in Tasks :
        (/\ tasks[t].pc = "cw_insert"
         /\ tasks[t].fe = "http"
         /\ ~invalid_branch(tasks[t].branch)
         /\ \A r \in get_repository(repositories, tasks[t].repo_id) :
                tasks[t].branch # r.default_branch)
            => \A w \in SeqToSet(worktrees') \ SeqToSet(worktrees) :
                  w.path.leaf \notin Reserved]_vars

\* C37: an HTTP createWorktree for a branch that does not begin with a dot
\* is answered 'already exists' only when the row at its path is the row of
\* that same branch
C37_RejectedOnlyForTheSameBranch ==
    [][\A t \in Tasks, b \in ReservedBranches :
        (/\ Head(b) # "."
         /\ CreateWorktreeRequest(t, 1, b, "http")
         /\ tasks'[t].resp = "bad_request"
         /\ tasks'[t].path # NoPath)
            => \A w \in get_worktree(worktrees, tasks'[t].path) :
                  /\ Head(w.branch) # "."
                  => w.branch = trim(b)]_vars

\* C38: no two worktree-creation pipelines are in flight for one path
C38_OneCreationPerPath ==
    \A t \in Tasks, o \in Tasks :
        (/\ t # o
         /\ tasks[t].pc \in Creating
         /\ tasks[o].pc \in Creating)
            => tasks[t].path # tasks[o].path

(***************************************************************************)
(* clone for URLs whose path has more than two pieces or a ".." piece.     *)
(* url::Url::parse resolves ".." in an https path; the ssh form is split   *)
(* as it is written.                                                       *)
(***************************************************************************)
\* https://github.com/acme/widgets/docs
UrlNested == [form |-> "https", host |-> <<"github", "com">>,
              segs |-> <<"acme", "widgets", "docs">>, git |-> FALSE]

\* git@github.com:../widgets.git
UrlDotDot == [form |-> "ssh", host |-> <<"github", "com">>,
              segs |-> <<"..", "widgets">>, git |-> TRUE]

UrlInputs == {UrlSsh, UrlNested, UrlDotDot, UrlBad}

NextUrls ==
    \E t \in Tasks :
        \/ Return(t)
        \/ \E url \in UrlInputs, fe \in FrontEnds : CloneRequest(t, url, fe)
        \/ CloneInsert(t)

SpecUrls == Init /\ [][NextUrls]_vars

\* C39: the local_path of every repository row is code_dir followed by two
\* components, owner and name, each non-empty and neither "." nor "..", and
\* no repository's local_path is an ancestor of another's
C39_LocalPathsAreApart ==
    /\ \A r \in repositories :
          /\ Len(r.local_path) = 2
          /\ \A i \in 1..Len(r.local_path) :
                r.local_path[i] \notin {"", ".", ".."}
    /\ \A r \in repositories, o \in repositories :
          r # o => ~is_prefix(r.local_path, o.local_path)

\* C40: once a deletion pipeline has removed the row at a path a creation,
\* clone or refresh pipeline is working on, a row appears at that path
\* again, while that pipeline runs, only by the insert of a createWorktree
\* request
C40_RemovedRowStaysRemoved ==
    [][\A d \in Tasks, o \in Tasks : \A path \in tasks[d].gone :
        (/\ path \in paths_of(o)
         /\ get_worktree(worktrees, path) = {}
         /\ get_worktree(worktrees', path) # {})
            => \E t \in Tasks :
                  tasks[t].pc = "cw_insert" /\ tasks'[t] # tasks[t]]_vars

====
